---- MODULE Spec2Model ----
(***************************************************************************)
(* The bulk-load pipeline of neo4j-data-insert-browser: the streaming     *)
(* route handlers POST /api/upload-node (src/app/api/upload-node/route.ts) *)
(* and POST /api/upload-relationship (src/unnamed/part_003).               *)
(*                                                                         *)
(* One run of start(controller) is a sequence of synchronous segments     *)
(* separated by awaits.  Every action below is one such segment; pc names  *)
(* the await (or the segment) the run is at.  The environment is the       *)
(* consumer of the ReadableStream (it may cancel at any await) and the     *)
(* store behind the neo4j driver (any awaited call may reject; a managed   *)
(* transaction is re-executed by session.executeWrite on a retryable       *)
(* error).                                                                 *)
(*                                                                         *)
(* A CSV file is a sequence of runs of equal rows, so that groups of       *)
(* thousands of rows are handled with the source's batch sizes.  A row is  *)
(* identified by its line number; a set of consecutive rows is a piece     *)
(* [key, lo, hi, m].                                                       *)
(***************************************************************************)
EXTENDS Integers, Sequences, FiniteSets, TLC

\* ------------------------------------------------------------ bounds
MaxFiles == 2
MaxRuns == 2
MaxFaults == 1
MaxQuietFiles == 3
MaxBatchRows == 2
MaxSameId == 2

\* ------------------------------------------------- program constants
NodeBatchSize == 1000
RelBatchSize == 5000
REQUIRED_COLUMNS == <<"TYPE", "FROM_LABEL", "FROM_ID", "TO_LABEL", "TO_ID">>
NODE_REQUIRED == <<"LABEL">>

\* ------------------------------------------------------------ inputs
Modes == {"node", "rel"}
Keys == {"", "A", "B"}

batchSize(md) == IF md = "node" THEN NodeBatchSize ELSE RelBatchSize

\* Lengths of a run of equal rows: half a batch, or two batches.  Runs of one
\* key add up to groups of half a batch, one batch, two batches, two and a half.
ShortRun(md) == batchSize(md) \div 2
RunLens(md) == {ShortRun(md), 2 * batchSize(md)}

\* m: the number of (from, to) node pairs the store matches for a row of the
\* run (0: FROM_ID or TO_ID matches no node).  A node row matches nothing.
Matches(md) == IF md = "node" THEN {1} ELSE {0, 1}

\* A run: rows without a key (a short run), rows that match (of either
\* length), rows that match nothing (a short run).
RunChoices(md) ==
  {[key |-> "", n |-> ShortRun(md), m |-> 1]} \cup
  {[key |-> k, n |-> n, m |-> 1] : k \in Keys \ {""}, n \in RunLens(md)} \cup
  {[key |-> k, n |-> ShortRun(md), m |-> m] : k \in Keys \ {""}, m \in Matches(md)}

HeaderChoices(md) ==
  IF md = "node"
  THEN {<<>>, <<"id", "name">>, <<"id", "LABEL", "name">>}
  ELSE {<<>>, <<"TYPE", "FROM_LABEL", "FROM_ID", "TO_LABEL">>,
        <<"TYPE", "FROM_LABEL", "FROM_ID", "TO_LABEL", "TO_ID", "since">>}

SeqsUpTo(S, k) == UNION {[1..n -> S] : n \in 0..k}

\* A field of a header line: a name, with or without white space around it.
raw(names, padded) == [i \in 1..Len(names) |-> [text |-> names[i], padded |-> padded]]

\* ----------------------------------------------------------- helpers
Min(a, b) == IF a < b THEN a ELSE b
Max(a, b) == IF a > b THEN a ELSE b

includes(seq, x) == \E i \in 1..Len(seq) : seq[i] = x

\* A name with white space around it, which is no column's name.
Padded == "<padded>"

\* Mutant: the header names are left as they stand in the file.
untrimmed(field) == IF field.padded THEN Padded ELSE field.text

\* transformHeader: (header) => header.trim()
trim(field) == field.text

\* parseResult.meta.fields
fields(line) == [i \in 1..Len(line) |-> trim(line[i])]

requiredColumns(md) == IF md = "node" THEN NODE_REQUIRED ELSE REQUIRED_COLUMNS

\* Mutant: only the first required column is looked for.
missingFirstColumnOnly(md, headers) ==
  IF includes(headers, requiredColumns(md)[1]) THEN <<>> ELSE <<requiredColumns(md)[1]>>

missingColumns(md, headers) ==
  SelectSeq(requiredColumns(md), LAMBDA col : ~includes(headers, col))

\* parseResult.data of a file: its rows, as pieces numbered from line 1.
RECURSIVE parseData(_, _)
parseData(runs, lo) ==
  IF runs = <<>> THEN <<>>
  ELSE <<[key |-> Head(runs).key, lo |-> lo, hi |-> lo + Head(runs).n - 1,
          m |-> Head(runs).m]>> \o parseData(Tail(runs), lo + Head(runs).n)

pieceLen(p) == p.hi - p.lo + 1

RECURSIVE rowCount(_)
rowCount(ps) == IF ps = <<>> THEN 0 ELSE pieceLen(Head(ps)) + rowCount(Tail(ps))

\* Mutant: a row with a falsy key is grouped like any other.
RECURSIVE groupKeysKeepEmpty(_, _)
groupKeysKeepEmpty(ps, seen) ==
  IF ps = <<>> THEN <<>>
  ELSE IF includes(seen, Head(ps).key)
       THEN groupKeysKeepEmpty(Tail(ps), seen)
       ELSE <<Head(ps).key>> \o groupKeysKeepEmpty(Tail(ps), Append(seen, Head(ps).key))

\* Keys of the Map rowsByLabel / rowsByType, in insertion order; a row with
\* a falsy key is skipped.
RECURSIVE groupKeys(_, _)
groupKeys(ps, seen) ==
  IF ps = <<>> THEN <<>>
  ELSE IF Head(ps).key = "" \/ includes(seen, Head(ps).key)
       THEN groupKeys(Tail(ps), seen)
       ELSE <<Head(ps).key>> \o groupKeys(Tail(ps), Append(seen, Head(ps).key))

\* Mutant: a row is put in front of the rows its group already has.
groupRowsLastFirst(ps, k) ==
  LET rows == SelectSeq(ps, LAMBDA p : p.key = k)
  IN [i \in 1..Len(rows) |-> rows[Len(rows) + 1 - i]]

\* The rows pushed to the Map entry of one key.
groupRows(ps, k) == SelectSeq(ps, LAMBDA p : p.key = k)

\* rows.slice(i, j) on row indices counted from 0.
RECURSIVE slice(_, _, _)
slice(ps, i, j) ==
  IF ps = <<>> \/ j <= 0 THEN <<>>
  ELSE LET p == Head(ps)
           n == pieceLen(p)
       IN IF i >= n THEN slice(Tail(ps), i - n, j - n)
          ELSE <<[p EXCEPT !.lo = p.lo + Max(i, 0), !.hi = Min(p.hi, p.lo + j - 1)]>>
               \o slice(Tail(ps), 0, j - n)

\* Mutant: the slice ends one row early.
RECURSIVE groupBatchesShort(_, _, _, _, _)
groupBatchesShort(f, k, rows, i, B) ==
  IF i >= rowCount(rows) THEN <<>>
  ELSE <<[file |-> f, key |-> k, i |-> i, rows |-> slice(rows, i, i + B - 1)]>>
       \o groupBatchesShort(f, k, rows, i + B, B)

\* for (let i = 0; i < rows.length; i += batchSize) rows.slice(i, i + batchSize)
RECURSIVE groupBatches(_, _, _, _, _)
groupBatches(f, k, rows, i, B) ==
  IF i >= rowCount(rows) THEN <<>>
  ELSE <<[file |-> f, key |-> k, i |-> i, rows |-> slice(rows, i, i + B)]>>
       \o groupBatches(f, k, rows, i + B, B)

\* for (const [key, rows] of entries) ...
RECURSIVE fileBatches(_, _, _, _)
fileBatches(f, ps, ks, B) ==
  IF ks = <<>> THEN <<>>
  ELSE groupBatches(f, Head(ks), groupRows(ps, Head(ks)), 0, B)
       \o fileBatches(f, ps, Tail(ks), B)

\* Mutant: the files are written last file first.
RECURSIVE allBatchesLastFileFirst(_, _, _)
allBatchesLastFileFirst(pfs, f, B) ==
  IF f > Len(pfs) THEN <<>>
  ELSE allBatchesLastFileFirst(pfs, f + 1, B)
       \o fileBatches(f, pfs[f].rows, groupKeys(pfs[f].rows, <<>>), B)

\* for (const parsedFile of parsedFiles) ...
RECURSIVE allBatches(_, _, _)
allBatches(pfs, f, B) ==
  IF f > Len(pfs) THEN <<>>
  ELSE fileBatches(f, pfs[f].rows, groupKeys(pfs[f].rows, <<>>), B)
       \o allBatches(pfs, f + 1, B)

\* Mutant: every row of the batch is counted, matched or not.
createdCountsRows(rows) == rowCount(rows)

\* RETURN count(n) / count(r): what the store reports for one tx.run.
RECURSIVE created(_)
created(rows) ==
  IF rows = <<>> THEN 0
  ELSE pieceLen(Head(rows)) * Head(rows).m + created(Tail(rows))

\* ------------------------------------------------------------ events
\* A progress percent is the rational num / den.
Progress(num, den) ==
  [t |-> "progress", num |-> num, den |-> den, msg |-> "", details |-> <<>>,
   files |-> 0, rows |-> 0]
ErrorEvent(msg) ==
  [t |-> "error", num |-> 0, den |-> 1, msg |-> msg, details |-> <<>>,
   files |-> 0, rows |-> 0]
DataEvent(nf, nr) ==
  [t |-> "data", num |-> 0, den |-> 1, msg |-> "", details |-> <<>>,
   files |-> nf, rows |-> nr]

\* array.join(", "): the items with the separator between them.
RECURSIVE join(_)
join(seq) ==
  IF Len(seq) <= 1 THEN seq ELSE <<Head(seq), ", ">> \o join(Tail(seq))

\* Missing columns: missingColumns.join(", ")
missingDetail(md, headers) == join(missingColumns(md, headers))

\* The error of a file that lacks a required column, with its details.
columnsError(md, headers) ==
  [ErrorEvent("missing required columns") EXCEPT !.details =
     IF md = "node"
     THEN <<[label |-> "must have LABEL", list |-> <<>>],
            [label |-> "Found columns", list |-> join(headers)]>>
     ELSE <<[label |-> "Required columns", list |-> join(REQUIRED_COLUMNS)],
            [label |-> "Missing columns", list |-> missingDetail(md, headers)],
            [label |-> "Found columns", list |-> join(headers)]>>]

\* Mutant: the share of the files parsed is scaled by 100.
parseProgressTimes100(idx, len) == Progress(5 * len + 100 * idx, len)

\* 5 + (fileIndex / files.length) * 10
parseProgress(idx, len) == Progress(5 * len + 10 * idx, len)

\* Math.round(30 + (processedRows / totalRows) * 65), Math.round rounding
\* halves up.
batchProgress(processed, total) ==
  Progress((2 * (30 * total + 65 * processed) + total) \div (2 * total), 1)


\* ------------------------------------------------------------- state
VARIABLES
  mode,           \* "node": upload-node route, "rel": upload-relationship route
  connOk,         \* connectionUrl, username and password are all non-empty
  urlOk,          \* neo4j.driver accepts the connection URL
  nfiles,         \* files.length
  files,          \* the files read so far, in input order
  pc,             \* where start(controller) is
  fileIndex,      \* the parse loop's fileIndex
  parsedFiles,    \* parsedFiles
  totalRows,      \* totalRows
  driver,         \* "none", "open", "closed"
  session,        \* "none", "open", "closed"
  drivers,        \* the calls of neo4j.driver that returned a driver
  sessions,       \* the calls of driver.session
  totalInserted,  \* totalInserted / totalCreated
  processedRows,  \* processedRows
  batchNo,        \* executeWrite calls that have resolved
  thrown,         \* an exception is propagating
  ctrl,           \* the stream controller: "open", "closed", "cancelled"
  events,         \* the chunks enqueued, in order
  writes,         \* the executeWrite calls made, in order
  calls,          \* the awaited store calls that have settled, in order
  pending,        \* entities created by the transaction in flight
  stored,         \* entities committed to the store by this run
  faults,         \* failures of the environment so far: rejected calls, a cancel
  run,            \* 1, or 2 when the same request is being served a second time
  replay,         \* the files of the request when known: a second serving, one file
  firstSummary,   \* totalRows of the first run's summary, the store after it
  qKey,           \* one group's key (its LABEL or TYPE), as the text's pieces
  qRows,          \* the rows of the group, as parsed: column name -> value
  qNodes,         \* the store: how many nodes have each id
  qPc,            \* one tx.run: "idle", "run", "done", "failed"
  qBatch,         \* the $batch parameter of the query
  qCreated,       \* the entities the query created, each with its row's index
  qCount,         \* the count the query returned
  ccBody,         \* check-connection: the request body
  ccPc,           \* check-connection: "idle", "json", "verify", "close", "done"
  ccDriver,       \* check-connection: its driver, "none", "open", "closed"
  ccVerified,     \* check-connection: verifyConnectivity, "none", "ok", "fail"
  ccReturn,       \* check-connection: the status of the return statement reached
  ccStatus,       \* check-connection: the status of the response, 0 before it
  reqPc,          \* concurrent requests: where each one is
  reqLeft,        \* concurrent requests: the batches each one has still to write
  frames,         \* the variables driver and session of each start(controller)
  heap,           \* the drivers and sessions created, each with its creator
  heapOps,        \* the transactions and closes executed: by whom, on what
  streams,        \* the events enqueued on each request's controller
  uploadStatus,   \* client: "idle", "uploading", "success", "error"
  progress,       \* client: the percent shown
  uploadError,    \* client: the error message shown
  closureStatus,  \* client: uploadStatus as the running handler's closure holds it
  clientPc,       \* client: "ready", "fetch", "read", "timer", "end"
  buffer,         \* client: the unfinished line kept between reads
  linesRead,      \* client: the lines the handler has processed, in order
  uploads,        \* client: the submits so far
  handlerExit,    \* client: how the handler's try block was left, "" while in it
  nodeFiles,      \* page: nodeFiles, the files as their ids
  relationshipFiles, \* page: relationshipFiles
  nodePreview,    \* page: nodePreview, one entry per previewed file
  relationshipPreview, \* page: relationshipPreview
  selectedTab,    \* page: "nodes" or "relationships"
  pendingTab,     \* page: the tab asked for while the dialog is open, "" for null
  isOpen,         \* page: the tab change confirmation dialog is open
  uploadType,     \* page: the tab of the last submit
  formData,       \* page: the files appended to the last request
  fuFiles,        \* FileUpload: the files state of each tab's component
  fuEffects,      \* FileUpload: the tabs whose onFilesChange effect has yet to run
  parses,         \* page: the parseFileForPreview calls with callbacks to come
  dropped,        \* the files dropped so far
  keepMounted,    \* the Tabs component keeps the panel of an unselected tab mounted
  connStore,      \* connection store: connectionUrl, username, password, isConnected
  isConnecting,   \* connection modal: isConnecting
  connError,      \* connection modal: error
  attempts,       \* connection modal: the onSubmit calls awaiting their response
  answered        \* the answers to the onSubmit calls, each with its form data, in order

vars == <<mode, connOk, urlOk, nfiles, files, pc, fileIndex, parsedFiles, totalRows,
          driver, session, drivers, sessions, totalInserted, processedRows, batchNo,
          thrown, ctrl, events, writes, calls, pending, stored, faults, run, replay, firstSummary,
          qKey, qRows, qNodes, qPc, qBatch, qCreated, qCount,
          ccBody, ccPc, ccDriver, ccVerified, ccReturn, ccStatus,
          reqPc, reqLeft, frames, heap, heapOps, streams,
          uploadStatus, progress, uploadError, closureStatus, clientPc, buffer,
          linesRead, uploads, handlerExit,
          nodeFiles, relationshipFiles, nodePreview, relationshipPreview, selectedTab,
          pendingTab, isOpen, uploadType, formData, fuFiles, fuEffects, parses, dropped,
          keepMounted, connStore, isConnecting, connError, attempts, answered>>

againVars == <<run, replay, firstSummary>>
queryVars == <<qKey, qRows, qNodes, qPc, qBatch, qCreated, qCount>>
checkVars == <<ccBody, ccPc, ccDriver, ccVerified, ccReturn, ccStatus>>
pairVars == <<reqPc, reqLeft, frames, heap, heapOps, streams>>
clientVars == <<uploadStatus, progress, uploadError, closureStatus, clientPc, buffer,
                linesRead, uploads, handlerExit>>
listVars == <<nodeFiles, relationshipFiles, nodePreview, relationshipPreview>>
tabVars == <<selectedTab, pendingTab, isOpen>>
dropVars == <<fuFiles, fuEffects, parses, dropped, keepMounted>>
pageVars == <<listVars, tabVars, uploadType, formData, dropVars>>
connVars == <<connStore, isConnecting, connError, attempts, answered>>
uiVars == <<pageVars, connVars>>
otherVars == <<queryVars, checkVars, pairVars, clientVars, uiVars>>
inputVars == <<mode, connOk, urlOk, nfiles, againVars, otherVars>>
storeVars == <<pending, stored>>
madeVars == <<drivers, sessions>>
countVars == <<totalInserted, processedRows, batchNo>>

\* A request with one of the given numbers of files, f being what the
\* environment has used up of its failures; given: the files, when the request
\* is one with known files (none: the files are chosen as they are read).
InitRun(fileCounts, f, given) ==
  /\ mode \in Modes
  /\ connOk \in BOOLEAN
  /\ urlOk \in BOOLEAN
  /\ nfiles \in fileCounts
  /\ faults = f
  /\ run = 1
  /\ replay \in given
  /\ firstSummary = [rows |-> 0, stored |-> 0]
  /\ files = <<>>
  /\ pc = "start"
  /\ fileIndex = 0
  /\ parsedFiles = <<>>
  /\ totalRows = 0
  /\ driver = "none"
  /\ session = "none"
  /\ drivers = 0
  /\ sessions = 0
  /\ totalInserted = 0
  /\ processedRows = 0
  /\ batchNo = 0
  /\ thrown = FALSE
  /\ ctrl = "open"
  /\ events = <<>>
  /\ writes = <<>>
  /\ calls = <<>>
  /\ pending = 0
  /\ stored = 0

\* No single query is looked at.
queryIdle ==
  /\ qKey = <<>>
  /\ qRows = <<>>
  /\ qNodes = <<>>
  /\ qPc = "idle"
  /\ qBatch = <<>>
  /\ qCreated = <<>>
  /\ qCount = 0

\* A request body that is not JSON.
NotJson == [json |-> FALSE, connectionUrl |-> <<>>, username |-> "", password |-> ""]

\* No check-connection request is looked at.
checkIdle ==
  /\ ccBody = NotJson
  /\ ccPc = "idle"
  /\ ccDriver = "none"
  /\ ccVerified = "none"
  /\ ccReturn = 0
  /\ ccStatus = 0

\* No concurrent requests are looked at.
pairIdle ==
  /\ reqPc = <<>>
  /\ reqLeft = <<>>
  /\ frames = <<>>
  /\ heap = <<>>
  /\ heapOps = {}
  /\ streams = <<>>

\* No client is looked at.
clientIdle ==
  /\ uploadStatus = "idle"
  /\ progress = 0
  /\ uploadError = ""
  /\ closureStatus = "idle"
  /\ clientPc = "idle"
  /\ buffer = <<>>
  /\ linesRead = <<>>
  /\ uploads = 0
  /\ handlerExit = ""

\* The two tabs of the page.
Tabs == {"nodes", "relationships"}

\* The page as it is constructed: no files, the nodes tab, no dialog.
pageIdle ==
  /\ nodeFiles = <<>>
  /\ relationshipFiles = <<>>
  /\ nodePreview = <<>>
  /\ relationshipPreview = <<>>
  /\ selectedTab = "nodes"
  /\ pendingTab = ""
  /\ isOpen = FALSE
  /\ uploadType = "nodes"
  /\ formData = <<>>
  /\ fuFiles = [tab \in Tabs |-> <<>>]
  /\ fuEffects = {}
  /\ parses = <<>>
  /\ dropped = 0
  /\ keepMounted = FALSE

\* The connection store as it is created, the modal before any submit.
NoConnection == [connectionUrl |-> "", username |-> "", password |-> "", isConnected |-> FALSE]

connIdle ==
  /\ connStore = NoConnection
  /\ isConnecting = FALSE
  /\ connError = ""
  /\ attempts = <<>>
  /\ answered = <<>>

uiIdle == pageIdle /\ connIdle

Init ==
  /\ InitRun(0..MaxFiles, 0, {<<>>})
  /\ queryIdle /\ checkIdle /\ pairIdle /\ clientIdle /\ uiIdle

\* A settled store call: op is "index", "run", "commit", "sessclose" or
\* "drvclose"; res is "ok", "retry" (rejected with a retryable error) or "fail".
Call(op, res, k, n) == [op |-> op, res |-> res, batch |-> k, created |-> n]

\* ---------------------------------------------------- stream controller
\* controller.enqueue throws a TypeError once the stream was closed.
canEnqueue == ctrl = "open"

\* Mutant: controller.close() is not called.
ctrlLeftOpen == "open"

\* controller.close() after a terminal chunk.
ctrlAfterClose == "closed"

\* sendProgress(...), one call after the other: all of them are enqueued, or
\* the first one throws.
sendProgress(evs) ==
  /\ events' = IF canEnqueue THEN events \o evs ELSE events
  /\ ctrl' = ctrl

\* controller.enqueue(terminal chunk); controller.close()
sendTerminal(ev) ==
  /\ events' = IF canEnqueue THEN Append(events, ev) ELSE events
  /\ ctrl' = IF canEnqueue THEN ctrlAfterClose ELSE ctrl

\* ------------------------------------------------------------ actions
\* Mutant: the connection information is validated before the files.
inputErrorCredentialsFirst ==
  IF ~connOk THEN "Neo4j connection information missing"
  ELSE IF nfiles = 0 THEN "No files provided"
  ELSE ""

\* The two validations start(controller) begins with ("": both pass).
inputError ==
  IF nfiles = 0 THEN "No files provided"
  ELSE IF ~connOk THEN "Neo4j connection information missing"
  ELSE ""

\* start(controller) up to the first await file.text().
Start ==
  /\ pc = "start"
  /\ IF inputError # ""
     THEN /\ sendTerminal(ErrorEvent(inputError))
          /\ pc' = "done"
     ELSE /\ sendProgress(<<Progress(5, 1), parseProgress(0, nfiles)>>)
          /\ pc' = "parse"
  /\ UNCHANGED <<inputVars, madeVars, files, fileIndex, parsedFiles, totalRows, driver, session,
                 countVars, thrown, writes, calls, storeVars, faults>>

RECURSIVE runsIn(_)
runsIn(fs) == IF fs = <<>> THEN 0 ELSE Len(Head(fs).runs) + runsIn(Tail(fs))

runsUsed == runsIn(files)

RECURSIVE allRuns(_)
allRuns(fs) == IF fs = <<>> THEN <<>> ELSE Head(fs).runs \o allRuns(Tail(fs))

\* Keys are opaque to the routes: the first key of a run is called "A".
keysInOrder(rs) ==
  \A i \in 1..Len(rs) : rs[i].key = "B" => \E j \in 1..(i - 1) : rs[j].key = "A"

FileChoices ==
  IF Len(files) < Len(replay) THEN {replay[Len(files) + 1]} ELSE
  {[readable |-> FALSE, headers |-> <<>>, runs |-> <<>>]} \cup
  {[readable |-> TRUE, headers |-> raw(h, FALSE), runs |-> <<>>] :
     h \in HeaderChoices(mode)} \cup
  {[readable |-> TRUE, headers |-> raw(h, FALSE), runs |-> r] :
     h \in {x \in HeaderChoices(mode) : missingColumns(mode, x) = <<>>},
     r \in {x \in SeqsUpTo(RunChoices(mode), MaxRuns - runsUsed) \ {<<>>} :
              keysInOrder(allRuns(files) \o x)}}

\* Mutant: the parse loop stops after its first file.
moreFilesNever(idx) == FALSE

\* fileIndex < files.length
moreFiles(idx) == idx < nfiles

\* Mutant: a file that fails is skipped and the loop goes on.
afterFileErrorNextFile == "parse"

\* controller.close(); return; in the parse loop: start(controller) is over.
afterFileError == "done"

\* One iteration of the parse loop, from the resolution of file.text() to the
\* next await: the next file's text(), or the first awaited store call.
ParseFile ==
  /\ pc = "parse"
  /\ \E file \in FileChoices :
       /\ files' = Append(files, file)
       /\ IF ~file.readable
          THEN /\ sendTerminal(ErrorEvent("Failed to parse file"))
               /\ pc' = afterFileError
               /\ UNCHANGED <<fileIndex, parsedFiles, totalRows>>
          ELSE IF Len(fields(file.headers)) = 0
          THEN /\ sendTerminal(ErrorEvent("has no headers"))
               /\ pc' = afterFileError
               /\ UNCHANGED <<fileIndex, parsedFiles, totalRows>>
          ELSE IF Len(missingColumns(mode, fields(file.headers))) > 0
          THEN /\ sendTerminal(columnsError(mode, fields(file.headers)))
               /\ pc' = afterFileError
               /\ UNCHANGED <<fileIndex, parsedFiles, totalRows>>
          ELSE /\ parsedFiles' = Append(parsedFiles,
                    [headers |-> fields(file.headers), rows |-> parseData(file.runs, 1),
                     rowCount |-> rowCount(parseData(file.runs, 1))])
               /\ totalRows' = totalRows + rowCount(parseData(file.runs, 1))
               /\ fileIndex' = fileIndex + 1
               /\ IF moreFiles(fileIndex + 1)
                  THEN /\ sendProgress(<<parseProgress(fileIndex + 1, nfiles)>>)
                       /\ pc' = IF canEnqueue THEN "parse" ELSE "done"
                  ELSE /\ UNCHANGED <<events, ctrl>>
                       /\ pc' = "connect"
  /\ UNCHANGED <<inputVars, madeVars, driver, session, countVars, thrown, writes, calls, storeVars,
                 faults>>

\* The batches of the run, in the order of the three nested loops.
batches == allBatches(parsedFiles, 1, batchSize(mode))

\* The batch being written.
batch == batches[batchNo + 1]

\* processedFiles and totalRows of the summary.
summary == DataEvent(Len(parsedFiles), totalInserted)

\* The loops after bn batches, evs being the progress events the segment sends
\* first: the next batch is handed to session.executeWrite, or the loops are
\* over and the segment goes on with the 95 and 100 events, the summary and
\* controller.close(), up to the finally's await session.close().
nextBatch(bn, evs) ==
  IF bn < Len(batches)
  THEN /\ writes' = Append(writes, batches[bn + 1])
       /\ sendProgress(evs)
       /\ thrown' = FALSE
       /\ pc' = "txrun"
  ELSE /\ writes' = writes
       /\ events' = IF canEnqueue
                    THEN events \o evs \o <<Progress(95, 1), Progress(100, 1), summary>>
                    ELSE events
       /\ ctrl' = IF canEnqueue THEN ctrlAfterClose ELSE ctrl
       /\ thrown' = ~canEnqueue
       /\ pc' = "sessclose"

\* After the parse loop: the 15 and 20 events, neo4j.driver, driver.session and
\* the 25 event, up to the first awaited store call.
Connect ==
  /\ pc = "connect"
  /\ IF ~canEnqueue
     THEN /\ pc' = "done"
          /\ UNCHANGED <<events, ctrl, driver, session, madeVars, writes, thrown>>
     ELSE IF ~urlOk
     THEN /\ events' = Append(events \o <<Progress(15, 1), Progress(20, 1)>>,
                              ErrorEvent("Failed to insert data into Neo4j"))
          /\ ctrl' = ctrlAfterClose
          /\ pc' = "done"
          /\ UNCHANGED <<driver, session, madeVars, writes, thrown>>
     ELSE /\ driver' = "open"
          /\ session' = "open"
          /\ drivers' = drivers + 1
          /\ sessions' = sessions + 1
          /\ IF mode = "rel"
             THEN /\ sendProgress(<<Progress(15, 1), Progress(20, 1), Progress(25, 1)>>)
                  /\ pc' = "index"
                  /\ UNCHANGED <<writes, thrown>>
             ELSE nextBatch(0, <<Progress(15, 1), Progress(20, 1), Progress(25, 1)>>)
  /\ UNCHANGED <<inputVars, files, fileIndex, parsedFiles, totalRows, countVars, calls,
                 storeVars, faults>>


\* Mutant: a rejected index statement is not caught.
afterIndexFatal(res) ==
  /\ calls' = Append(calls, Call("index", res, 0, 0))
  /\ IF canEnqueue /\ res = "ok"
     THEN nextBatch(0, <<Progress(30, 1)>>)
     ELSE /\ thrown' = TRUE
          /\ pc' = "sessclose"
          /\ UNCHANGED <<writes, events, ctrl>>
  /\ UNCHANGED <<inputVars, madeVars, files, fileIndex, parsedFiles, totalRows, driver, session,
                 countVars, storeVars>>

\* await session.run(CREATE INDEX IF NOT EXISTS ...) resolves or rejects (the
\* rejection is caught and logged); then the 30 event and the loops.
afterIndex(res) ==
  /\ calls' = Append(calls, Call("index", res, 0, 0))
  /\ IF canEnqueue
     THEN nextBatch(0, <<Progress(30, 1)>>)
     ELSE /\ thrown' = TRUE
          /\ pc' = "sessclose"
          /\ UNCHANGED <<writes, events, ctrl>>
  /\ UNCHANGED <<inputVars, madeVars, files, fileIndex, parsedFiles, totalRows, driver, session,
                 countVars, storeVars>>

IndexOk ==
  /\ pc = "index"
  /\ afterIndex("ok")
  /\ UNCHANGED faults

IndexFail ==
  /\ pc = "index"
  /\ faults < MaxFaults
  /\ faults' = faults + 1
  /\ afterIndex("fail")

\* What the transaction function adds to processedRows.
processedDelta == IF mode = "rel" THEN rowCount(batch.rows) ELSE 0

\* await tx.run(query, { batch }) resolves; the transaction function updates the
\* counters, the relationship route sends the batch's progress event, and the
\* driver starts the commit.  If sendProgress throws, the transaction is rolled
\* back and executeWrite rejects.
TxRunOk ==
  /\ pc = "txrun"
  /\ totalInserted' = totalInserted + created(batch.rows)
  /\ processedRows' = processedRows + processedDelta
  /\ calls' = Append(calls, Call("run", "ok", batchNo + 1, created(batch.rows)))
  /\ IF mode = "rel"
     THEN /\ sendProgress(<<batchProgress(processedRows', totalRows)>>)
          /\ thrown' = ~canEnqueue
          /\ pending' = IF canEnqueue THEN created(batch.rows) ELSE 0
          /\ pc' = IF canEnqueue THEN "commit" ELSE "sessclose"
     ELSE /\ UNCHANGED <<events, ctrl, thrown>>
          /\ pending' = created(batch.rows)
          /\ pc' = "commit"
  /\ UNCHANGED <<inputVars, madeVars, files, fileIndex, parsedFiles, totalRows, driver, session,
                 batchNo, writes, stored, faults>>

\* Where executeWrite goes after a retryable error: it runs the transaction
\* function again.
retryPc == "txrun"

\* tx.run rejects with a retryable error (a transient error, a lost connection).
TxRunRetry ==
  /\ pc = "txrun"
  /\ faults < MaxFaults
  /\ faults' = faults + 1
  /\ pc' = retryPc
  /\ calls' = Append(calls, Call("run", "retry", batchNo + 1, 0))
  /\ UNCHANGED <<inputVars, madeVars, files, fileIndex, parsedFiles, totalRows, driver, session,
                 countVars, thrown, ctrl, events, writes, storeVars>>

\* Mutant: session.close() is not in a finally, the rejection skips it.
failPcSkipsSession == "drvclose"

\* Mutant: the rejection is caught inside the loops and the batch is tried again.
failPcTriesAgain == "txrun"

\* Where the run goes when executeWrite rejects: the finally of the session.
failPc == "sessclose"

\* Mutant: one transaction spans the batches, a rollback undoes them all.
storeAfterRollbackAll(held) == 0

\* The store after the transaction of a batch was rolled back: what the
\* transactions committed before it left.
storeAfterRollback(held) == held

\* tx.run rejects with an error executeWrite does not retry.
TxRunFail ==
  /\ pc = "txrun"
  /\ faults < MaxFaults
  /\ faults' = faults + 1
  /\ thrown' = TRUE
  /\ pc' = failPc
  /\ calls' = Append(calls, Call("run", "fail", batchNo + 1, 0))
  /\ stored' = storeAfterRollback(stored)
  /\ UNCHANGED <<inputVars, madeVars, files, fileIndex, parsedFiles, totalRows, driver, session,
                 countVars, ctrl, events, writes, pending>>

\* Mutant: the query merges, entities the store already holds are not added.
storeAfterMerge(held, new) == Max(held, new)

\* The store after a committed CREATE: what it held and what the query created.
storeAfterCreate(held, new) == held + new

\* The commit succeeds: executeWrite resolves and the loops go on.
CommitOk ==
  /\ pc = "commit"
  /\ stored' = storeAfterCreate(stored, pending)
  /\ pending' = 0
  /\ batchNo' = batchNo + 1
  /\ nextBatch(batchNo + 1, <<>>)
  /\ calls' = Append(calls, Call("commit", "ok", batchNo + 1, pending))
  /\ UNCHANGED <<inputVars, madeVars, files, fileIndex, parsedFiles, totalRows, driver, session,
                 totalInserted, processedRows, faults>>

\* The commit rejects with a retryable error: the transaction is rolled back.
CommitRetry ==
  /\ pc = "commit"
  /\ faults < MaxFaults
  /\ faults' = faults + 1
  /\ pending' = 0
  /\ pc' = retryPc
  /\ calls' = Append(calls, Call("commit", "retry", batchNo + 1, 0))
  /\ UNCHANGED <<inputVars, madeVars, files, fileIndex, parsedFiles, totalRows, driver, session,
                 countVars, thrown, ctrl, events, writes, stored>>

\* The commit rejects with an error executeWrite does not retry.
CommitFail ==
  /\ pc = "commit"
  /\ faults < MaxFaults
  /\ faults' = faults + 1
  /\ pending' = 0
  /\ thrown' = TRUE
  /\ pc' = failPc
  /\ calls' = Append(calls, Call("commit", "fail", batchNo + 1, 0))
  /\ stored' = storeAfterRollback(stored)
  /\ UNCHANGED <<inputVars, madeVars, files, fileIndex, parsedFiles, totalRows, driver, session,
                 countVars, ctrl, events, writes>>

\* finally { await session.close() }, then catch (neo4jError) when an exception
\* is propagating, up to await driver.close().
afterSessionClose(failed) ==
  /\ session' = "closed"
  /\ calls' = Append(calls, Call("sessclose", IF failed THEN "fail" ELSE "ok", 0, 0))
  /\ IF thrown \/ failed
     THEN /\ sendTerminal(ErrorEvent("Failed to insert data into Neo4j"))
          /\ thrown' = ~canEnqueue
     ELSE /\ UNCHANGED <<events, ctrl>>
          /\ thrown' = FALSE
  /\ pc' = "drvclose"
  /\ UNCHANGED <<inputVars, madeVars, files, fileIndex, parsedFiles, totalRows, driver, countVars,
                 writes, storeVars>>

SessionCloseOk ==
  /\ pc = "sessclose"
  /\ afterSessionClose(FALSE)
  /\ UNCHANGED faults

SessionCloseFail ==
  /\ pc = "sessclose"
  /\ faults < MaxFaults
  /\ faults' = faults + 1
  /\ afterSessionClose(TRUE)

\* finally { if (driver) await driver.close() }, then the outer catch when an
\* exception is propagating.
afterDriverClose(failed) ==
  /\ driver' = "closed"
  /\ calls' = Append(calls, Call("drvclose", IF failed THEN "fail" ELSE "ok", 0, 0))
  /\ IF thrown \/ failed
     THEN sendTerminal(ErrorEvent("Internal server error"))
     ELSE UNCHANGED <<events, ctrl>>
  /\ thrown' = FALSE
  /\ pc' = "done"
  /\ UNCHANGED <<inputVars, madeVars, files, fileIndex, parsedFiles, totalRows, session, countVars,
                 writes, storeVars>>

DriverCloseOk ==
  /\ pc = "drvclose"
  /\ afterDriverClose(FALSE)
  /\ UNCHANGED faults

DriverCloseFail ==
  /\ pc = "drvclose"
  /\ faults < MaxFaults
  /\ faults' = faults + 1
  /\ afterDriverClose(TRUE)

\* The run is suspended in an await.
awaiting == pc \in {"parse", "index", "txrun", "commit", "sessclose", "drvclose"}

\* The consumer cancels the stream (the client went away).
ConsumerCancel ==
  /\ awaiting
  /\ ctrl = "open"
  /\ faults < MaxFaults
  /\ faults' = faults + 1
  /\ ctrl' = "cancelled"
  /\ UNCHANGED <<inputVars, madeVars, files, pc, fileIndex, parsedFiles, totalRows, driver,
                 session, countVars, thrown, events, writes, calls, storeVars>>

Next ==
  \/ Start
  \/ ParseFile
  \/ Connect
  \/ IndexOk
  \/ IndexFail
  \/ TxRunOk
  \/ TxRunRetry
  \/ TxRunFail
  \/ CommitOk
  \/ CommitRetry
  \/ CommitFail
  \/ SessionCloseOk
  \/ SessionCloseFail
  \/ DriverCloseOk
  \/ DriverCloseFail
  \/ ConsumerCancel

Spec == Init /\ [][Next]_vars

\* ------------------------------------------- the same request, twice
\* A run ended with the summary and the client posts the same files again: a
\* new start(controller), on the store the first run left.
RunAgain ==
  /\ pc = "done" /\ run = 1
  /\ Len(events) > 0 /\ events[Len(events)].t = "data"
  /\ run' = 2
  /\ replay' = files
  /\ firstSummary' = [rows |-> events[Len(events)].rows, stored |-> stored]
  /\ files' = <<>>
  /\ pc' = "start"
  /\ fileIndex' = 0
  /\ parsedFiles' = <<>>
  /\ totalRows' = 0
  /\ driver' = "none"
  /\ session' = "none"
  /\ drivers' = 0
  /\ sessions' = 0
  /\ totalInserted' = 0
  /\ processedRows' = 0
  /\ batchNo' = 0
  /\ thrown' = FALSE
  /\ ctrl' = "open"
  /\ events' = <<>>
  /\ writes' = <<>>
  /\ calls' = <<>>
  /\ UNCHANGED <<mode, connOk, urlOk, nfiles, storeVars, faults, otherVars>>

\* Requests served while the store answers every call and the consumer reads
\* the stream to its end.
QuietInit ==
  /\ InitRun(0..MaxQuietFiles, MaxFaults, {<<>>})
  /\ queryIdle /\ checkIdle /\ pairIdle /\ clientIdle /\ uiIdle

QuietNext ==
  \/ Start
  \/ ParseFile
  \/ Connect
  \/ IndexOk
  \/ TxRunOk
  \/ CommitOk
  \/ SessionCloseOk
  \/ DriverCloseOk
  \/ RunAgain

QuietSpec == QuietInit /\ [][QuietNext]_vars

\* ------------------------------------------------------ one file, whole
\* A request with one file, its header line and its rows drawn from wider
\* sets, served while the store answers every call and the consumer reads on.
MaxFileRuns == 3

\* The names of seq that are in S, in the order of seq.
pick(seq, S) == SelectSeq(seq, LAMBDA x : x \in S)

reverse(seq) == [i \in 1..Len(seq) |-> seq[Len(seq) + 1 - i]]

OtherColumns(md) ==
  IF md = "node" THEN {<<>>, <<"id", "name">>, <<"label", "id">>}
  ELSE {<<>>, <<"since">>, <<"type", "since">>}

\* Header lines: any of the required columns, in the order of REQUIRED_COLUMNS
\* or in the opposite one, other columns after them, white space around the
\* names or not.
HeaderLines(md) ==
  {raw(h \o o, p) :
     h \in UNION {{pick(requiredColumns(md), S), reverse(pick(requiredColumns(md), S))} :
                    S \in SUBSET {requiredColumns(md)[i] : i \in 1..Len(requiredColumns(md))}},
     o \in OtherColumns(md),
     p \in BOOLEAN}

OneFileChoices(md) ==
  {[readable |-> TRUE, headers |-> h, runs |-> <<>>] : h \in HeaderLines(md)} \cup
  {[readable |-> TRUE, headers |-> raw(h, FALSE), runs |-> r] :
     h \in {x \in HeaderChoices(md) : missingColumns(md, x) = <<>>},
     r \in {x \in SeqsUpTo(RunChoices(md), MaxFileRuns) \ {<<>>} : keysInOrder(x)}}

OneFileInit ==
  /\ InitRun({1}, MaxFaults, {<<file>> : file \in OneFileChoices(mode)})
  /\ connOk /\ urlOk
  /\ queryIdle /\ checkIdle /\ pairIdle /\ clientIdle /\ uiIdle

OneFileNext ==
  \/ Start
  \/ ParseFile
  \/ Connect
  \/ IndexOk
  \/ TxRunOk
  \/ CommitOk
  \/ SessionCloseOk
  \/ DriverCloseOk

OneFileSpec == OneFileInit /\ [][OneFileNext]_vars

\* ------------------------------------------------- one query, row by row
\* The transaction function of one batch on rows with their columns: what is
\* sent as $batch, the query text built around the group's key, and what the
\* store creates for it.
uploadVars == <<mode, connOk, urlOk, nfiles, files, pc, fileIndex, parsedFiles,
                totalRows, driver, session, madeVars, totalInserted, processedRows,
                batchNo, thrown, ctrl, events, writes, calls, pending, stored, faults,
                againVars, checkVars, pairVars, clientVars, uiVars>>

\* The header of a valid file.
columns(md) ==
  IF md = "node" THEN <<"id", "LABEL", "name">>
  ELSE REQUIRED_COLUMNS \o <<"since">>

keyColumn(md) == IF md = "node" THEN "LABEL" ELSE "TYPE"

Ids == {"1", "2"}

\* The backtick character, as a piece of text.
Backtick == "<backtick>"

\* A key is text, cut in pieces where it has a backtick.
KeyTexts == {<<"KNOWS">>, <<"KNO", Backtick, "WS">>}

\* The row Papa.parse makes of a line with n fields: the first n header names
\* with the values of the line (a line shorter than the header lacks the others).
rowOf(md, key, from, to, n) ==
  [c \in {columns(md)[i] : i \in 1..n} |->
     IF c = keyColumn(md) THEN key
     ELSE IF c \in {"id", "FROM_ID"} THEN from
     ELSE IF c = "TO_ID" THEN to
     ELSE "v"]

RowChoices(md, key) ==
  {rowOf(md, key, from, to, n) :
     from \in Ids, to \in (IF md = "node" THEN {"1"} ELSE Ids),
     n \in {Len(columns(md)) - 1, Len(columns(md))}}

QueryInit ==
  /\ InitRun({0}, 0, {<<>>})
  /\ connOk /\ urlOk
  /\ checkIdle /\ pairIdle /\ clientIdle /\ uiIdle
  /\ qKey \in KeyTexts
  /\ qRows \in SeqsUpTo(RowChoices(mode, qKey), MaxBatchRows) \ {<<>>}
  /\ qNodes \in [Ids -> (IF mode = "node" THEN {0} ELSE 0..MaxSameId)]
  /\ qPc = "idle"
  /\ qBatch = <<>>
  /\ qCreated = <<>>
  /\ qCount = 0

\* const { LABEL: _, ...properties } = row
without(row, cols) == [c \in DOMAIN row \ cols |-> row[c]]

\* The rows are grouped and sliced; the node route pushes the row without its
\* LABEL, the relationship route the row itself.
SubmitBatch ==
  /\ qPc = "idle"
  /\ qBatch' = [i \in 1..Len(qRows) |->
                  IF mode = "node" THEN without(qRows[i], {"LABEL"}) ELSE qRows[i]]
  /\ qPc' = "run"
  /\ UNCHANGED <<uploadVars, qKey, qRows, qNodes, qCreated, qCount>>

\* ${label} between backticks in the query text.
quoted(key) == <<Backtick>> \o key \o <<Backtick>>

RECURSIVE upToBacktick(_)
upToBacktick(ts) ==
  IF ts = <<>> \/ Head(ts) = Backtick THEN <<>>
  ELSE <<Head(ts)>> \o upToBacktick(Tail(ts))

\* The name the store reads from a quoted identifier: what stands between the
\* opening backtick and the next one; and the text left after it.
identifierRead(q) == upToBacktick(Tail(q))
leftOver(q) == SubSeq(q, Len(identifierRead(q)) + 3, Len(q))

\* UNWIND $batch AS row CREATE (n:label) SET n = row
nodeCreates(rows, label) ==
  [i \in 1..Len(rows) |-> [row |-> i, name |-> label, props |-> rows[i]]]

\* Object.keys(sampleRow).filter(key => !REQUIRED_COLUMNS.includes(key))
propertyKeys(rows) == {k \in DOMAIN rows[1] : ~includes(REQUIRED_COLUMNS, k)}

\* {key: row.key, ...}: a key the row lacks is null, and not stored.
relProps(row, keys) == [k \in {x \in keys : x \in DOMAIN row} |-> row[k]]

\* MATCH (from {id: row.FROM_ID}) MATCH (to {id: row.TO_ID}): the pairs of nodes.
pairs(row) == qNodes[row["FROM_ID"]] * qNodes[row["TO_ID"]]

\* UNWIND $batch AS row MATCH ... MATCH ... CREATE (from)-[r:type {...}]->(to)
RECURSIVE relCreates(_, _, _)
relCreates(rows, i, type) ==
  IF i > Len(rows) THEN <<>>
  ELSE [j \in 1..pairs(rows[i]) |->
          [row |-> i, name |-> type, props |-> relProps(rows[i], propertyKeys(rows))]]
       \o relCreates(rows, i + 1, type)

\* await tx.run(query, { batch }) resolves.
QueryOk ==
  /\ qPc = "run"
  /\ leftOver(quoted(qKey)) = <<>>
  /\ qCreated' = IF mode = "node"
                 THEN nodeCreates(qBatch, identifierRead(quoted(qKey)))
                 ELSE relCreates(qBatch, 1, identifierRead(quoted(qKey)))
  /\ qCount' = Len(qCreated')
  /\ qPc' = "done"
  /\ UNCHANGED <<uploadVars, qKey, qRows, qNodes, qBatch>>

\* The text after the identifier is not what the statement needs there: the
\* store rejects the query.
QueryRejected ==
  /\ qPc = "run"
  /\ leftOver(quoted(qKey)) # <<>>
  /\ qPc' = "failed"
  /\ UNCHANGED <<uploadVars, qKey, qRows, qNodes, qBatch, qCreated, qCount>>

QueryNext ==
  \/ SubmitBatch
  \/ QueryOk
  \/ QueryRejected

QuerySpec == QueryInit /\ [][QueryNext]_vars

\* ------------------------------------------------------ check-connection
\* POST /api/check-connection.  A URL is text cut in three pieces: what stands
\* before ://, the :// itself, and what follows it.
Schemes == {"neo4j", "neo4j+s", "neo4j+ssc", "bolt", "bolt+s", "bolt+ssc"}

UrlChoices ==
  {<<sc, "://", "host:7687">> : sc \in Schemes} \cup
  {<<>>, <<"http", "://", "host:7687">>, <<"bolt", "://", "">>, <<"bolt", "", "host:7687">>}

BodyChoices ==
  {NotJson} \cup
  [json : {TRUE}, connectionUrl : UrlChoices, username : {"", "neo4j", "admin"},
   password : {"", "secret"}]

\* z.string().min(1).regex(/^(neo4j|neo4j\+s|neo4j\+ssc|bolt|bolt\+s|bolt\+ssc):\/\/.+/)
urlValid(url) ==
  /\ Len(url) = 3
  /\ url[1] \in Schemes
  /\ url[2] = "://"
  /\ url[3] # ""

\* checkConnectionRequestSchema.safeParse(body).success
schemaValid(body) ==
  /\ urlValid(body.connectionUrl)
  /\ body.username # ""
  /\ body.password # ""

CheckInit ==
  /\ InitRun({0}, 0, {<<>>})
  /\ mode = "node" /\ connOk /\ urlOk
  /\ queryIdle /\ pairIdle /\ clientIdle /\ uiIdle
  /\ ccBody \in BodyChoices
  /\ ccPc = "json"
  /\ ccDriver = "none"
  /\ ccVerified = "none"
  /\ ccReturn = 0
  /\ ccStatus = 0

nonCheckVars == <<mode, connOk, urlOk, nfiles, files, pc, fileIndex, parsedFiles,
                  totalRows, driver, session, madeVars, totalInserted, processedRows,
                  batchNo, thrown, ctrl, events, writes, calls, pending, stored, faults,
                  againVars, queryVars, pairVars, clientVars, uiVars>>

\* await request.json() rejects: the outer catch answers 500.
BodyNotJson ==
  /\ ccPc = "json"
  /\ ~ccBody.json
  /\ ccStatus' = 500
  /\ ccPc' = "done"
  /\ UNCHANGED <<nonCheckVars, ccBody, ccDriver, ccVerified, ccReturn>>

\* The body does not pass the schema: 400, before any driver.
BodyInvalid ==
  /\ ccPc = "json"
  /\ ccBody.json
  /\ ~schemaValid(ccBody)
  /\ ccStatus' = 400
  /\ ccPc' = "done"
  /\ UNCHANGED <<nonCheckVars, ccBody, ccDriver, ccVerified, ccReturn>>

\* neo4j.driver(...) returns; verifyConnectivity is awaited.
DriverCreated ==
  /\ ccPc = "json"
  /\ ccBody.json
  /\ schemaValid(ccBody)
  /\ ccDriver' = "open"
  /\ ccPc' = "verify"
  /\ UNCHANGED <<nonCheckVars, ccBody, ccVerified, ccReturn, ccStatus>>

\* neo4j.driver(...) throws: the catch returns 401, and the finally has no
\* driver to close.
DriverNotCreated ==
  /\ ccPc = "json"
  /\ ccBody.json
  /\ schemaValid(ccBody)
  /\ ccReturn' = 401
  /\ ccStatus' = 401
  /\ ccPc' = "done"
  /\ UNCHANGED <<nonCheckVars, ccBody, ccDriver, ccVerified>>

\* Mutant: driver.close() follows verifyConnectivity in the try, without a
\* finally: a rejection skips it.
afterVerifyCloseOnSuccess(res) == IF res = "ok" THEN "close" ELSE "done"

\* A return in the try or in the catch runs the finally before it completes.
afterVerify(res) == "close"

\* await driver.verifyConnectivity() resolves: return 200, through the finally.
VerifyOk ==
  /\ ccPc = "verify"
  /\ ccVerified' = "ok"
  /\ ccReturn' = 200
  /\ ccPc' = afterVerify("ok")
  /\ UNCHANGED <<nonCheckVars, ccBody, ccDriver, ccStatus>>

\* await driver.verifyConnectivity() rejects: return 401, through the finally.
VerifyFail ==
  /\ ccPc = "verify"
  /\ ccVerified' = "fail"
  /\ ccReturn' = 401
  /\ ccPc' = afterVerify("fail")
  /\ UNCHANGED <<nonCheckVars, ccBody, ccDriver, ccStatus>>

\* finally { await driver.close() } resolves: the pending return completes.
CheckCloseOk ==
  /\ ccPc = "close"
  /\ ccDriver' = "closed"
  /\ ccStatus' = ccReturn
  /\ ccPc' = "done"
  /\ UNCHANGED <<nonCheckVars, ccBody, ccVerified, ccReturn>>

\* finally { await driver.close() } rejects: the rejection replaces the pending
\* return and the outer catch answers 500.
CheckCloseFail ==
  /\ ccPc = "close"
  /\ ccDriver' = "closed"
  /\ ccStatus' = 500
  /\ ccPc' = "done"
  /\ UNCHANGED <<nonCheckVars, ccBody, ccVerified, ccReturn>>

CheckNext ==
  \/ BodyNotJson
  \/ BodyInvalid
  \/ DriverCreated
  \/ DriverNotCreated
  \/ VerifyOk
  \/ VerifyFail
  \/ CheckCloseOk
  \/ CheckCloseFail

CheckSpec == CheckInit /\ [][CheckNext]_vars


\* -------------------------------------------------- concurrent requests
\* Several upload requests served at once by the one server process: each call
\* of POST runs its own start(controller), interleaved with the others at the
\* awaits.  A request is followed from neo4j.driver on.
MaxRequests == 2
MaxReqBatches == 2

Requests == 1..MaxRequests

runVars == <<mode, connOk, urlOk, nfiles, files, pc, fileIndex, parsedFiles, totalRows,
             driver, session, madeVars, totalInserted, processedRows, batchNo, thrown,
             ctrl, events, writes, calls, pending, stored, faults, againVars>>

nonPairVars == <<runVars, queryVars, checkVars, clientVars, uiVars>>

\* Mutant: driver, session and controller are variables of the module, shared
\* by all the calls of POST.
frameShared(r) == 1

\* driver, session and controller are variables of start(controller): every
\* call of POST has its own.
frame(r) == r

Obj(kind, r) == [kind |-> kind, by |-> r]
Op(r, on, op) == [by |-> r, on |-> on, op |-> op]

\* controller.enqueue(...) in request r.
enqueue(r, evs) ==
  streams' = [streams EXCEPT ![frame(r)] =
                @ \o [i \in 1..Len(evs) |-> [by |-> r, t |-> evs[i]]]]

PairInit ==
  /\ InitRun({0}, 0, {<<>>})
  /\ connOk /\ urlOk
  /\ queryIdle /\ checkIdle /\ clientIdle /\ uiIdle
  /\ reqPc = [r \in Requests |-> "connect"]
  /\ reqLeft \in [Requests -> 0..MaxReqBatches]
  /\ frames = [r \in Requests |-> [driver |-> 0, session |-> 0]]
  /\ heap = <<>>
  /\ heapOps = {}
  /\ streams = [r \in Requests |-> <<>>]

\* driver = neo4j.driver(...); const session = driver.session(); then the
\* first awaited store call, or the summary when there is nothing to write.
ReqConnect(r) ==
  /\ reqPc[r] = "connect"
  /\ heap' = heap \o <<Obj("driver", r), Obj("session", r)>>
  /\ frames' = [frames EXCEPT ![frame(r)] =
                  [driver |-> Len(heap) + 1, session |-> Len(heap) + 2]]
  /\ IF reqLeft[r] > 0
     THEN /\ enqueue(r, <<"progress">>)
          /\ reqPc' = [reqPc EXCEPT ![r] = "write"]
     ELSE /\ enqueue(r, <<"progress", "data">>)
          /\ reqPc' = [reqPc EXCEPT ![r] = "closing"]
  /\ UNCHANGED <<nonPairVars, reqLeft, heapOps>>

\* await session.executeWrite(...) resolves.
ReqWriteOk(r) ==
  /\ reqPc[r] = "write"
  /\ heapOps' = heapOps \cup {Op(r, frames[frame(r)].session, "write")}
  /\ reqLeft' = [reqLeft EXCEPT ![r] = @ - 1]
  /\ IF reqLeft[r] > 1
     THEN /\ enqueue(r, IF mode = "rel" THEN <<"progress">> ELSE <<>>)
          /\ UNCHANGED reqPc
     ELSE /\ enqueue(r, <<"progress", "data">>)
          /\ reqPc' = [reqPc EXCEPT ![r] = "closing"]
  /\ UNCHANGED <<nonPairVars, frames, heap>>

\* await session.executeWrite(...) rejects.
ReqWriteFail(r) ==
  /\ reqPc[r] = "write"
  /\ heapOps' = heapOps \cup {Op(r, frames[frame(r)].session, "write")}
  /\ reqPc' = [reqPc EXCEPT ![r] = "failing"]
  /\ UNCHANGED <<nonPairVars, reqLeft, frames, heap, streams>>

\* finally { await session.close() }, then the catch of a rejected write.
ReqSessionClose(r) ==
  /\ reqPc[r] \in {"closing", "failing"}
  /\ heapOps' = heapOps \cup {Op(r, frames[frame(r)].session, "close")}
  /\ enqueue(r, IF reqPc[r] = "failing" THEN <<"error">> ELSE <<>>)
  /\ reqPc' = [reqPc EXCEPT ![r] = "drvclose"]
  /\ UNCHANGED <<nonPairVars, reqLeft, frames, heap>>

\* finally { if (driver) await driver.close() }
ReqDriverClose(r) ==
  /\ reqPc[r] = "drvclose"
  /\ heapOps' = heapOps \cup {Op(r, frames[frame(r)].driver, "close")}
  /\ reqPc' = [reqPc EXCEPT ![r] = "done"]
  /\ UNCHANGED <<nonPairVars, reqLeft, frames, heap, streams>>

PairNext ==
  \E r \in Requests :
     \/ ReqConnect(r)
     \/ ReqWriteOk(r)
     \/ ReqWriteFail(r)
     \/ ReqSessionClose(r)
     \/ ReqDriverClose(r)

PairSpec == PairInit /\ [][PairNext]_vars

\* ------------------------------------------------------------ the client
\* The upload page (src/unnamed/part_002): handleSubmitNodes and
\* handleSubmitRelationships, which differ in the URL and the files only, the
\* 50 ms timer of their catch block, and handleCloseProgressModal.  The
\* environment is the response: its status, and the text of its body, which
\* arrives in chunks cut anywhere.
MaxUploads == 2
MaxLines == 3

serverVars == <<runVars, queryVars, checkVars, pairVars>>
nonClientVars == <<serverVars, uiVars>>

\* A line that is not JSON.
Garbage ==
  [t |-> "garbage", num |-> 0, den |-> 1, msg |-> "", details |-> <<>>,
   files |-> 0, rows |-> 0]

\* The lines of a response body.
Lines ==
  {Progress(25, 1), Progress(100, 1), ErrorEvent("Failed to insert data into Neo4j"),
   DataEvent(1, 0), Garbage}

\* What one reader.read() delivers: the lines that end in it (the first one
\* being the end of the line the buffer holds, if it holds one), and the
\* beginning of a line that does not end in it.
Chunks ==
  {c \in [lines : SeqsUpTo(Lines, MaxLines - Len(linesRead)),
          post : {<<>>} \cup {<<l>> : l \in Lines}] :
     /\ c.lines # <<>> \/ c.post # <<>>
     /\ buffer # <<>> =>
          IF c.lines # <<>> THEN c.lines[1] = buffer[1] ELSE c.post = buffer}

ClientInit ==
  /\ InitRun({0}, 0, {<<>>})
  /\ mode = "node" /\ connOk /\ urlOk
  /\ queryIdle /\ checkIdle /\ pairIdle /\ uiIdle
  /\ uploadStatus = "idle"
  /\ progress = 0
  /\ uploadError = ""
  /\ closureStatus = "idle"
  /\ clientPc = "ready"
  /\ buffer = <<>>
  /\ linesRead = <<>>
  /\ uploads = 0
  /\ handlerExit = ""

\* The file list and the preview the page holds for a tab.
filesOf(tab) == IF tab = "nodes" THEN nodeFiles ELSE relationshipFiles

previewOf(tab) == IF tab = "nodes" THEN nodePreview ELSE relationshipPreview

\* setNodeFiles / setRelationshipFiles
setFiles(tab, fs) ==
  IF tab = "nodes"
  THEN nodeFiles' = fs /\ UNCHANGED relationshipFiles
  ELSE relationshipFiles' = fs /\ UNCHANGED nodeFiles

\* setNodePreview / setRelationshipPreview
setPreview(tab, pv) ==
  IF tab = "nodes"
  THEN nodePreview' = pv /\ UNCHANGED relationshipPreview
  ELSE relationshipPreview' = pv /\ UNCHANGED nodePreview

\* The handler up to await fetch(...): handleSubmitNodes on the nodes tab,
\* handleSubmitRelationships on the other.  uploadStatus inside the handler is
\* the constant of the render the handler was created in.
Submit ==
  /\ clientPc = "ready"
  /\ uploads < MaxUploads
  /\ uploads' = uploads + 1
  /\ uploadType' = selectedTab
  /\ formData' = filesOf(selectedTab)
  /\ closureStatus' = uploadStatus
  /\ uploadStatus' = "uploading"
  /\ progress' = 0
  /\ uploadError' = ""
  /\ buffer' = <<>>
  /\ linesRead' = <<>>
  /\ handlerExit' = ""
  /\ clientPc' = "fetch"
  /\ UNCHANGED <<serverVars, connVars, listVars, tabVars, dropVars>>

\* catch (error): the message and the progress are set, the status follows
\* from a timer.
caught(msg, exit) ==
  /\ uploadError' = msg
  /\ progress' = 0
  /\ handlerExit' = exit
  /\ clientPc' = "timer"

\* fetch resolves with response.ok and a body.
FetchOk ==
  /\ clientPc = "fetch"
  /\ clientPc' = "read"
  /\ UNCHANGED <<nonClientVars, uploadStatus, progress, uploadError, closureStatus,
                 buffer, linesRead, uploads, handlerExit>>

\* fetch resolves with a response that is not ok.
FetchNotOk ==
  /\ clientPc = "fetch"
  /\ caught("Upload failed", "not ok")
  /\ UNCHANGED <<nonClientVars, uploadStatus, closureStatus, buffer, linesRead, uploads>>

\* fetch rejects.
FetchRejects ==
  /\ clientPc = "fetch"
  /\ caught("Failed to fetch", "fetch rejected")
  /\ UNCHANGED <<nonClientVars, uploadStatus, closureStatus, buffer, linesRead, uploads>>

\* Mutant: an error line is logged and the loop goes on.
throwsOnNothing(line) == FALSE

\* if (data.error) { ... throw new Error(errorMessage) }
throwsOn(line) == line.t = "error"

\* for (const line of lines) { ... }: st is what the loop has done so far.
RECURSIVE handleLines(_, _)
handleLines(lines, st) ==
  IF lines = <<>> \/ st.thrown THEN st
  ELSE LET line == Head(lines)
           seen == [st EXCEPT !.read = Append(@, line)]
       IN handleLines(Tail(lines),
            IF line.t = "progress" THEN [seen EXCEPT !.progress = line.num]
            ELSE IF throwsOn(line) THEN [seen EXCEPT !.thrown = TRUE, !.msg = line.msg]
            ELSE IF line.t = "data"
                 THEN [seen EXCEPT !.progress = 100, !.status = "success"]
            ELSE seen)

\* await reader.read() resolves with chunk c: the complete lines are handled,
\* the rest is kept in the buffer.
Read(c) ==
  /\ clientPc = "read"
  /\ LET st == handleLines(c.lines,
                  [status |-> uploadStatus, progress |-> progress, read |-> linesRead,
                   thrown |-> FALSE, msg |-> ""])
     IN /\ linesRead' = st.read
        /\ uploadStatus' = st.status
        /\ IF st.thrown
           THEN /\ caught(st.msg, "error event")
                /\ UNCHANGED buffer
           ELSE /\ progress' = st.progress
                /\ buffer' = c.post
                /\ UNCHANGED <<uploadError, clientPc, handlerExit>>
  /\ UNCHANGED <<nonClientVars, closureStatus, uploads>>

ReadChunk == \E c \in Chunks : Read(c)

\* await reader.read() resolves with done: the loop is left, and the handler
\* tests the uploadStatus of its closure.
ReadDone ==
  /\ clientPc = "read"
  /\ IF closureStatus = "uploading"
     THEN caught("Upload completed but no response received", "no response")
     ELSE /\ handlerExit' = "returned"
          /\ clientPc' = "end"
          /\ UNCHANGED <<uploadError, progress>>
  /\ UNCHANGED <<nonClientVars, uploadStatus, closureStatus, buffer, linesRead, uploads>>

\* await reader.read() rejects.
ReadFails ==
  /\ clientPc = "read"
  /\ caught("network error", "read rejected")
  /\ UNCHANGED <<nonClientVars, uploadStatus, closureStatus, buffer, linesRead, uploads>>

\* setTimeout(() => setUploadStatus("error"), 50)
Timer ==
  /\ clientPc = "timer"
  /\ uploadStatus' = "error"
  /\ clientPc' = "end"
  /\ UNCHANGED <<nonClientVars, progress, uploadError, closureStatus, buffer, linesRead,
                 uploads, handlerExit>>

\* Mutant: the files are cleared whatever the status was.
clearsFilesAlways(status) == TRUE

\* if (uploadStatus === "success")
clearsFiles(status) == status = "success"

\* handleCloseProgressModal: the modal can be closed once the status is
\* success or error.
CloseProgressModal ==
  /\ clientPc = "end"
  /\ uploadStatus \in {"success", "error"}
  /\ uploadStatus' = "idle"
  /\ progress' = 0
  /\ IF clearsFiles(uploadStatus)
     THEN setFiles(uploadType, <<>>) /\ setPreview(uploadType, <<>>)
     ELSE UNCHANGED listVars
  /\ clientPc' = "ready"
  /\ UNCHANGED <<serverVars, connVars, tabVars, uploadType, formData, dropVars,
                 uploadError, closureStatus, buffer, linesRead, uploads, handlerExit>>

ClientNext ==
  \/ Submit
  \/ FetchOk
  \/ FetchNotOk
  \/ FetchRejects
  \/ ReadChunk
  \/ ReadDone
  \/ ReadFails
  \/ Timer
  \/ CloseProgressModal

ClientSpec == ClientInit /\ [][ClientNext]_vars

\* --------------------------------------------------------------- the page
\* The upload page (Home) with the FileUpload component of each tab.  Files
\* are their ids, in the order they were dropped; a preview entry is the id of
\* the file it was parsed from.  An effect runs before the next event of the
\* user; a callback of Papa.parse runs when the file has been read, at any time.
MaxDrops == 2
MaxPending == 1

\* maxFiles={10}
maxFiles == 10

nonPageVars == <<serverVars, clientVars, connVars>>

\* The form data of a connection that was established.
SomeConnection ==
  [connectionUrl |-> "neo4j://a", username |-> "neo4j", password |-> "p", isConnected |-> TRUE]

\* The page after its first render: the FileUpload of every mounted panel has
\* its first onFilesChange effect to run.
PageInit ==
  /\ InitRun({0}, 0, {<<>>})
  /\ mode = "node" /\ connOk /\ urlOk
  /\ queryIdle /\ checkIdle /\ pairIdle
  /\ uploadStatus = "idle"
  /\ progress = 0
  /\ uploadError = ""
  /\ closureStatus = "idle"
  /\ clientPc = "ready"
  /\ buffer = <<>>
  /\ linesRead = <<>>
  /\ uploads = 0
  /\ handlerExit = ""
  /\ nodeFiles = <<>>
  /\ relationshipFiles = <<>>
  /\ nodePreview = <<>>
  /\ relationshipPreview = <<>>
  /\ selectedTab = "nodes"
  /\ pendingTab = ""
  /\ isOpen = FALSE
  /\ uploadType = "nodes"
  /\ formData = <<>>
  /\ fuFiles = [tab \in Tabs |-> <<>>]
  /\ keepMounted \in BOOLEAN
  /\ fuEffects = IF keepMounted THEN Tabs ELSE {"nodes"}
  /\ parses = <<>>
  /\ dropped = 0
  /\ connStore = SomeConnection
  /\ isConnecting = FALSE
  /\ connError = ""
  /\ attempts = <<>>
  /\ answered = <<>>

\* No effect is pending, and neither the dialog nor the progress modal covers
\* the page: the user can act on the selected tab.
quiet == fuEffects = {} /\ ~isOpen /\ clientPc = "ready"

\* The user changes the files of a tab while at most MaxPending calls of
\* parseFileForPreview have callbacks to come.
fewPending == Len(parses) <= MaxPending

\* seq without its i-th element.
removeAt(seq, i) == SubSeq(seq, 1, i - 1) \o SubSeq(seq, i + 1, Len(seq))

\* onDrop(acceptedFiles), k files being accepted.
Drop ==
  \E k \in 1..MaxDrops :
    /\ quiet /\ fewPending
    /\ dropped + k <= MaxDrops
    /\ LET newFiles == [i \in 1..k |-> dropped + i]
           updated == fuFiles[selectedTab] \o newFiles
       IN fuFiles' = [fuFiles EXCEPT
                        ![selectedTab] = SubSeq(updated, 1, Min(Len(updated), maxFiles))]
    /\ dropped' = dropped + k
    /\ fuEffects' = fuEffects \cup {selectedTab}
    /\ UNCHANGED <<nonPageVars, listVars, tabVars, uploadType, formData, parses,
                   keepMounted>>

\* removeFile(id)
RemoveFile ==
  /\ quiet /\ fewPending
  /\ \E i \in 1..Len(fuFiles[selectedTab]) :
       fuFiles' = [fuFiles EXCEPT ![selectedTab] = removeAt(@, i)]
  /\ fuEffects' = fuEffects \cup {selectedTab}
  /\ UNCHANGED <<nonPageVars, listVars, tabVars, uploadType, formData, parses, dropped,
                 keepMounted>>

\* parseFileForPreview(files, setPreview): one Papa.parse per file, the
\* previews being collected in the call's own array.
parseFileForPreview(tab, fs) == Append(parses, [tab |-> tab, files |-> fs, previews |-> <<>>])

\* The onFilesChange effect of a FileUpload: handleNodeFilesChange or
\* handleRelationshipFilesChange with the component's files.
FilesEffect ==
  \E tab \in fuEffects :
    LET fs == fuFiles[tab]
    IN /\ fuEffects' = fuEffects \ {tab}
       /\ setFiles(tab, fs)
       /\ IF Len(fs) > 0
          THEN /\ parses' = parseFileForPreview(tab, fs)
               /\ UNCHANGED <<nodePreview, relationshipPreview>>
          ELSE /\ setPreview(tab, <<>>)
               /\ UNCHANGED parses
       /\ UNCHANGED <<nonPageVars, tabVars, uploadType, formData, fuFiles, dropped,
                      keepMounted>>

\* The complete callback of one Papa.parse: the preview is pushed, and the
\* previews are set when they are as many as the files of the call.
ParseComplete ==
  \E i \in 1..Len(parses) :
    \E f \in {parses[i].files[j] : j \in 1..Len(parses[i].files)} :
      LET call == parses[i]
          previews == Append(call.previews, f)
      IN /\ \A j \in 1..Len(call.previews) : call.previews[j] # f
         /\ IF Len(previews) = Len(call.files)
            THEN /\ setPreview(call.tab, previews)
                 /\ parses' = removeAt(parses, i)
            ELSE /\ parses' = [parses EXCEPT ![i].previews = previews]
                 /\ UNCHANGED <<nodePreview, relationshipPreview>>
         /\ UNCHANGED <<nonPageVars, nodeFiles, relationshipFiles, tabVars, uploadType,
                        formData, fuFiles, fuEffects, dropped, keepMounted>>

\* setSelectedTab(newTab) and the render that follows: a panel that is destroyed
\* loses its FileUpload, a panel that is created gets a new one, with
\* useState(initialFiles) and its first effect.
select(newTab) ==
  /\ selectedTab' = newTab
  /\ IF keepMounted \/ newTab = selectedTab
     THEN UNCHANGED <<fuFiles, fuEffects>>
     ELSE /\ fuFiles' = [tab \in Tabs |-> <<>>]
          /\ fuEffects' = fuEffects \cup {newTab}

\* handleTabChange(key)
TabChange ==
  /\ quiet
  /\ \E newTab \in Tabs :
       IF Len(filesOf(selectedTab)) > 0 /\ newTab # selectedTab
       THEN /\ pendingTab' = newTab
            /\ isOpen' = TRUE
            /\ UNCHANGED <<selectedTab, fuFiles, fuEffects>>
       ELSE /\ select(newTab)
            /\ UNCHANGED <<pendingTab, isOpen>>
  /\ UNCHANGED <<nonPageVars, listVars, uploadType, formData, parses, dropped, keepMounted>>

\* Mutant: confirming keeps the files of the tab that is left.
confirmedFilesKept(fs) == fs

\* setNodeFiles([]) / setRelationshipFiles([]) of handleConfirmTabChange
confirmedFiles(fs) == <<>>

\* The dialog's Switch Tab button: handleConfirmTabChange(); onClose()
ConfirmTabChange ==
  /\ isOpen
  /\ IF pendingTab # ""
     THEN /\ setFiles(selectedTab, confirmedFiles(filesOf(selectedTab)))
          /\ setPreview(selectedTab, <<>>)
          /\ select(pendingTab)
          /\ pendingTab' = ""
     ELSE UNCHANGED <<listVars, selectedTab, pendingTab, fuFiles, fuEffects>>
  /\ isOpen' = FALSE
  /\ UNCHANGED <<nonPageVars, uploadType, formData, parses, dropped, keepMounted>>

\* The dialog's Cancel button: handleCancelTabChange(); onClose()
CancelTabChange ==
  /\ isOpen
  /\ pendingTab' = ""
  /\ isOpen' = FALSE
  /\ UNCHANGED <<nonPageVars, listVars, selectedTab, uploadType, formData, dropVars>>

\* The dialog is dismissed without a button: onOpenChange
DismissTabDialog ==
  /\ isOpen
  /\ isOpen' = FALSE
  /\ UNCHANGED <<nonPageVars, listVars, selectedTab, pendingTab, uploadType, formData,
                 dropVars>>

\* The submit button of the selected tab, rendered while the tab has files.
PressSubmit ==
  /\ quiet
  /\ Len(filesOf(selectedTab)) > 0
  /\ Submit

\* A response body whose next chunk is its terminal line, whole.
ReadAnswer ==
  \E c \in {x \in Chunks : x.post = <<>> /\ Len(x.lines) = 1
                           /\ x.lines[1].t \in {"data", "error"}} : Read(c)

\* The page while files are chosen: nothing is submitted.
PageNext ==
  \/ Drop
  \/ RemoveFile
  \/ FilesEffect
  \/ ParseComplete
  \/ TabChange
  \/ ConfirmTabChange
  \/ CancelTabChange
  \/ DismissTabDialog

PageSpec == PageInit /\ [][PageNext]_vars

\* The page with its uploads: files are dropped, on either tab, and submitted,
\* and the progress modal is closed.
UploadPageNext ==
  \/ Drop
  \/ FilesEffect
  \/ ParseComplete
  \/ TabChange
  \/ ConfirmTabChange
  \/ PressSubmit
  \/ FetchOk
  \/ FetchNotOk
  \/ ReadAnswer
  \/ ReadDone
  \/ Timer
  \/ CloseProgressModal

UploadPageSpec == PageInit /\ [][UploadPageNext]_vars

\* ------------------------------------------------- the connection modal
\* Neo4jConnectionModal.onSubmit with the connection store.  The environment is
\* the answer to each call of /api/check-connection.
MaxAttempts == 2

nonConnVars == <<serverVars, clientVars, pageVars>>

\* Form data that pass the validation of the form.
ConnectionForms ==
  [connectionUrl : {"neo4j://a", "bolt://b"}, username : {"neo4j"}, password : {"p", "q"}]

\* What fetch and response.json() deliver: a body with response.ok, a body
\* with an error, or a rejection.
Answers ==
  {[kind |-> "body", ok |-> TRUE, isConnected |-> c, details |-> <<>>, message |-> ""] :
     c \in BOOLEAN} \cup
  {[kind |-> "body", ok |-> FALSE, isConnected |-> FALSE, details |-> d,
    message |-> "Connection failed"] : d \in {<<>>, <<"Unauthorized">>}} \cup
  {[kind |-> "rejected", ok |-> FALSE, isConnected |-> FALSE, details |-> <<>>,
    message |-> "Failed to fetch"]}

ConnInit ==
  /\ InitRun({0}, 0, {<<>>})
  /\ mode = "node" /\ connOk /\ urlOk
  /\ queryIdle /\ checkIdle /\ pairIdle /\ clientIdle /\ uiIdle

\* onSubmit(data) up to await fetch(...); the form is rendered while the modal
\* is open.
SubmitConnection ==
  /\ ~connStore.isConnected
  /\ Len(attempts) + Len(answered) < MaxAttempts
  /\ \E data \in ConnectionForms : attempts' = Append(attempts, data)
  /\ isConnecting' = TRUE
  /\ connError' = ""
  /\ UNCHANGED <<nonConnVars, connStore, answered>>

\* setConnection(url, username, password)
setConnection(data) ==
  [connectionUrl |-> data.connectionUrl, username |-> data.username,
   password |-> data.password, isConnected |-> TRUE]

\* Mutant: an answer that is ok connects, whatever it says.
connectsOnOk(answer) == answer.kind = "body" /\ answer.ok

\* response.ok and successData.data.isConnected
connects(answer) == answer.kind = "body" /\ answer.ok /\ answer.isConnected

\* The message of the error that onSubmit throws or catches.
errorOf(answer) ==
  IF answer.kind = "rejected" THEN answer.message
  ELSE IF ~answer.ok
       THEN IF answer.details # <<>> THEN answer.details[1] ELSE answer.message
  ELSE "Connection failed"

\* The rest of onSubmit, from the answer to the end of the finally block.
AnswerConnection ==
  \E i \in 1..Len(attempts), answer \in Answers :
    /\ attempts' = removeAt(attempts, i)
    /\ answered' = Append(answered, [data |-> attempts[i], answer |-> answer])
    /\ IF connects(answer)
       THEN /\ connStore' = setConnection(attempts[i])
            /\ UNCHANGED connError
       ELSE /\ connError' = errorOf(answer)
            /\ UNCHANGED connStore
    /\ isConnecting' = FALSE
    /\ UNCHANGED nonConnVars

\* isOpen={!isConnected}
modalOpen == ~connStore.isConnected

\* ProtectedContent returns its children unless !isConnected.
protectedShown == IF ~connStore.isConnected THEN FALSE ELSE TRUE

ConnNext ==
  \/ SubmitConnection
  \/ AnswerConnection

ConnSpec == ConnInit /\ [][ConnNext]_vars

\* ============================================================ claims
isTerminal(e) == e.t \in {"error", "data"}
errorEvents == {i \in 1..Len(events) : events[i].t = "error"}
dataEvents == {i \in 1..Len(events) : events[i].t = "data"}
progressEvents == {i \in 1..Len(events) : events[i].t = "progress"}
lastEvent == events[Len(events)]

\* a.num / a.den <= b.num / b.den
percentLeq(a, b) == a.num * b.den <= b.num * a.den

nonDecreasing ==
  \A i, j \in progressEvents : i < j => percentLeq(events[i], events[j])

callsWith(op, res) == {i \in 1..Len(calls) : calls[i].op = op /\ calls[i].res = res}

\* A file lacks a required column (a file without any header lacks them all).
lacksColumn(file) ==
  /\ file.readable
  /\ \E c \in 1..Len(requiredColumns(mode)) :
       ~includes(fields(file.headers), requiredColumns(mode)[c])

someFileLacksColumn == \E f \in 1..Len(files) : lacksColumn(files[f])

\* C1: when the consumer never cancels, the stream has exactly one terminal
\* event, an error or a summary, and it is the last event enqueued; no event
\* follows a terminal event, also after session.close or driver.close rejected.
C1_OneTerminalEventLast ==
  /\ \A i \in 1..Len(events) : isTerminal(events[i]) => i = Len(events)
  /\ (pc = "done" /\ ctrl # "cancelled") =>
        (Len(events) > 0 /\ isTerminal(lastEvent))

\* The summary was enqueued and session.close or driver.close rejected afterwards.
C1_Witness ==
  /\ pc = "done"
  /\ Len(events) > 0 /\ lastEvent.t = "data"
  /\ callsWith("sessclose", "fail") \cup callsWith("drvclose", "fail") # {}

\* C2: in a node run that enqueued the summary, the percents of the progress
\* events never decrease, every event before the summary is a progress event,
\* and the event right before the summary is the progress event 100.
C2_NodeProgressTo100 ==
  (mode = "node" /\ dataEvents # {}) =>
     /\ nonDecreasing
     /\ lastEvent.t = "data"
     /\ Len(events) >= 2
     /\ \A i \in 1..(Len(events) - 1) : events[i].t = "progress"
     /\ events[Len(events) - 1].num = 100 * events[Len(events) - 1].den

\* A successful node run over two files that wrote a batch.
C2_Witness ==
  /\ mode = "node" /\ pc = "done" /\ dataEvents # {}
  /\ nfiles = 2 /\ Len(writes) > 0

\* C3: in a relationship run the percents of the progress events never
\* decrease, the per-batch events and the 95 and 100 events included.
C3_RelProgressNonDecreasing == mode = "rel" => nonDecreasing

\* C4 as stated: with a file that lacks a required column the run never creates
\* a driver or a session, never writes, and ends with exactly one terminal
\* error event.
C4_MissingColumnOneError ==
  someFileLacksColumn =>
     /\ driver = "none" /\ session = "none"
     /\ writes = <<>> /\ calls = <<>> /\ stored = 0
     /\ dataEvents = {}
     /\ pc = "done" => Cardinality(errorEvents) = 1

\* C4 amended: the same, the terminal error event being enqueued unless the
\* consumer cancelled the stream before, in which case no terminal event is.
C4_MissingColumnNoWrites ==
  someFileLacksColumn =>
     /\ driver = "none" /\ session = "none"
     /\ writes = <<>> /\ calls = <<>> /\ stored = 0
     /\ dataEvents = {}
     /\ pc = "done" =>
          Cardinality(errorEvents) = (IF ctrl = "cancelled" THEN 0 ELSE 1)

\* A valid file with rows comes before the file that lacks a column.
C4_Witness ==
  /\ pc = "done" /\ Len(files) = 2
  /\ ~lacksColumn(files[1]) /\ files[1].runs # <<>>
  /\ lacksColumn(files[2]) /\ Len(files[2].headers) > 0
  /\ Cardinality(errorEvents) = 1

\* C5: a driver that was created is closed when the run ends, and the session
\* is closed before the driver is, on every exit path.
C5_ResourcesReleased ==
  /\ driver = "closed" => session = "closed"
  /\ pc = "done" => (driver # "open" /\ session # "open")
  /\ session # "none" => driver # "none"

\* The exit paths: success, index failure, batch failure, an event that could
\* not be enqueued, session.close rejecting.
C5_Witness ==
  /\ pc = "done" /\ driver = "closed"
  /\ callsWith("sessclose", "fail") # {}

\* A store error on a batch write.
storeError(c) == c.op \in {"run", "commit"} /\ c.res \in {"retry", "fail"}
storeFailure(c) == c.op \in {"run", "commit"} /\ c.res = "fail"

laterWrites(i) == {j \in (i + 1)..Len(calls) : calls[j].op \in {"run", "commit"}}

\* C6 as stated: after a store error on a batch write no transaction function
\* is executed any more (the batch is not executed again, no other batch is),
\* no summary is enqueued and the run ends with one terminal error event.
C6_StoreErrorIsFatal ==
  \A i \in 1..Len(calls) :
     storeError(calls[i]) =>
        /\ laterWrites(i) = {}
        /\ dataEvents = {}
        /\ pc = "done" => Cardinality(errorEvents) = 1

\* C6 amended: the same for an error that executeWrite does not retry (a
\* retryable error makes the driver execute the batch again), the terminal
\* error event being enqueued unless the consumer cancelled the stream.
C6_RejectedWriteIsFatal ==
  \A i \in 1..Len(calls) :
     storeFailure(calls[i]) =>
        /\ laterWrites(i) = {}
        /\ Len(writes) = calls[i].batch
        /\ dataEvents = {}
        /\ pc = "done" =>
             Cardinality(errorEvents) = (IF ctrl = "cancelled" THEN 0 ELSE 1)

\* A batch was rejected while other batches were still to be written.
C6_Witness ==
  /\ pc = "done"
  /\ \E i \in 1..Len(calls) :
        storeFailure(calls[i]) /\ calls[i].batch < Len(batches)
  /\ Cardinality(errorEvents) = 1

\* The rows of file f whose key is k, counted on the file as it was read.
RECURSIVE keyRows(_, _)
keyRows(runs, k) ==
  IF runs = <<>> THEN 0
  ELSE (IF Head(runs).key = k THEN Head(runs).n ELSE 0) + keyRows(Tail(runs), k)

writesOf(f, k) == {j \in 1..Len(writes) : writes[j].file = f /\ writes[j].key = k}

\* C7: the executeWrite calls of a group of n rows are consecutive slices of
\* the group in input order, each of batchSize rows but the last, which has the
\* remainder; they hold rows of that group of that file only, no row twice; in
\* a run that ends with the summary there are ceil(n / batchSize) of them.
C7_BatchSlicing ==
  LET B == batchSize(mode) IN
  /\ \A j \in 1..Len(writes) :
       LET w == writes[j]
           n == keyRows(files[w.file].runs, w.key)
           c == Cardinality({h \in writesOf(w.file, w.key) : h < j})
       IN /\ w.key # ""
          /\ w.i = c * B
          /\ c * B < n
          /\ rowCount(w.rows) = Min(B, n - c * B)
          /\ \A x \in 1..Len(w.rows) :
               /\ w.rows[x].lo <= w.rows[x].hi
               /\ \E q \in 1..Len(parsedFiles[w.file].rows) :
                    LET r == parsedFiles[w.file].rows[q]
                    IN r.key = w.key /\ r.lo <= w.rows[x].lo /\ w.rows[x].hi <= r.hi
               /\ x > 1 => w.rows[x - 1].hi < w.rows[x].lo
          /\ \A h \in writesOf(w.file, w.key) :
               h < j => writes[h].rows[Len(writes[h].rows)].hi < w.rows[1].lo
  /\ dataEvents # {} =>
       \A f \in 1..Len(files) : \A k \in Keys \ {""} :
          Cardinality(writesOf(f, k)) = (keyRows(files[f].runs, k) + B - 1) \div B

\* 2500 node rows of one label were written as 1000, 1000, 500.
C7_Witness ==
  /\ mode = "node" /\ dataEvents # {}
  /\ Len(writes) = 3
  /\ keyRows(files[1].runs, writes[1].key) = 2500
  /\ <<rowCount(writes[1].rows), rowCount(writes[2].rows), rowCount(writes[3].rows)>>
       = <<1000, 1000, 500>>

\* C8: once the consumer has cancelled the stream the run calls executeWrite
\* no more, and it closes the session and the driver.
C8_NoWriteAfterCancel ==
  /\ [][ctrl = "cancelled" => writes' = writes]_vars
  /\ [](pc = "done" /\ ctrl = "cancelled" => driver # "open" /\ session # "open")

RECURSIVE createdBy(_)
createdBy(ws) == IF ws = <<>> THEN 0 ELSE created(Head(ws).rows) + createdBy(Tail(ws))

\* C9: the summary's processedFiles is the number of input files and its
\* totalRows is the sum over the batches of the count the store returned for
\* the batch.
C9_SummaryCounts ==
  \A i \in dataEvents :
     /\ events[i].files = nfiles
     /\ events[i].rows = createdBy(writes)

\* The rows with a key, and the pairs the store matches for them.
RECURSIVE keyedRows(_)
keyedRows(fs) ==
  IF fs = <<>> THEN 0
  ELSE keyRows(Head(fs).runs, "A") + keyRows(Head(fs).runs, "B") + keyedRows(Tail(fs))

RECURSIVE matchedIn(_)
matchedIn(runs) ==
  IF runs = <<>> THEN 0
  ELSE (IF Head(runs).key = "" THEN 0 ELSE Head(runs).n * Head(runs).m)
       + matchedIn(Tail(runs))

RECURSIVE matchedRows(_)
matchedRows(fs) ==
  IF fs = <<>> THEN 0 ELSE matchedIn(Head(fs).runs) + matchedRows(Tail(fs))

RECURSIVE rowsWritten(_)
rowsWritten(ws) ==
  IF ws = <<>> THEN 0 ELSE rowCount(Head(ws).rows) + rowsWritten(Tail(ws))

\* C10: a relationship run in which no call fails and the consumer does not
\* cancel ends with the summary whatever rows match no node: every row with a
\* TYPE was submitted, and totalRows counts the matched rows only.
C10_UnmatchedRowsAddNothing ==
  (mode = "rel" /\ pc = "done" /\ faults = 0 /\ driver # "none") =>
     /\ Len(events) > 0 /\ lastEvent.t = "data"
     /\ errorEvents = {}
     /\ lastEvent.rows = matchedRows(files)
     /\ stored = matchedRows(files)
     /\ rowsWritten(writes) = keyedRows(files)

\* A batch held rows that match nothing next to rows that match, and a later
\* batch was written.
C10_Witness ==
  /\ mode = "rel" /\ pc = "done" /\ faults = 0 /\ driver # "none"
  /\ Len(writes) >= 2
  /\ \E x, y \in 1..Len(writes[1].rows) :
        writes[1].rows[x].m = 0 /\ writes[1].rows[y].m = 1
  /\ lastEvent.rows < keyedRows(files)

\* The rows of the executeWrite calls of one group.
RECURSIVE rowsIn(_, _)
rowsIn(ws, js) ==
  IF js = {} THEN 0
  ELSE LET j == CHOOSE x \in js : TRUE
       IN rowCount(ws[j].rows) + rowsIn(ws, js \ {j})

\* C13: only rows with a non-empty key are submitted, under their own key; a
\* run that ends with the summary submitted every such row of every file once;
\* and a run over files whose rows all lack a key (or that have no rows) ends,
\* when nothing fails, with the summary, totalRows 0 and no write transaction.
C13_KeylessRowsSkipped ==
  /\ \A j \in 1..Len(writes) :
       /\ writes[j].key # ""
       /\ \A x \in 1..Len(writes[j].rows) : writes[j].rows[x].key = writes[j].key
  /\ dataEvents # {} =>
       /\ rowsWritten(writes) = keyedRows(files)
       /\ \A f \in 1..Len(files) : \A k \in Keys \ {""} :
             rowsIn(writes, writesOf(f, k)) = keyRows(files[f].runs, k)
  /\ (pc = "done" /\ faults = 0 /\ driver # "none" /\ keyedRows(files) = 0) =>
       /\ writes = <<>>
       /\ callsWith("run", "ok") = {}
       /\ errorEvents = {}
       /\ Len(events) > 0 /\ lastEvent = DataEvent(nfiles, 0)

\* A file whose rows all lack a key and a file without rows were uploaded, and
\* the run ended with the summary.
C13_Witness ==
  /\ pc = "done" /\ faults = 0 /\ dataEvents # {}
  /\ Len(files) = 2
  /\ files[1].runs # <<>> /\ \A i \in 1..Len(files[1].runs) : files[1].runs[i].key = ""
  /\ files[2].runs = <<>>
  /\ lastEvent.rows = 0

\* C14: a run with zero files, or with missing connection information, enqueues
\* exactly one event, the terminal error, reads no file and creates no driver;
\* with both, the error is the no-files error.
C14_InputErrorOnly ==
  (pc # "start" /\ (nfiles = 0 \/ ~connOk)) =>
     /\ pc = "done"
     /\ events = <<ErrorEvent(IF nfiles = 0 THEN "No files provided"
                              ELSE "Neo4j connection information missing")>>
     /\ files = <<>> /\ parsedFiles = <<>>
     /\ driver = "none" /\ session = "none" /\ calls = <<>>

\* Zero files and missing connection information together.
C14_Witness == pc = "done" /\ nfiles = 0 /\ ~connOk /\ Len(events) = 1

\* The progress events a successful run sends besides the per-batch ones: 5,
\* one per file, 15, 20, 25 (and 30 in a relationship run), 95, 100.
fixedProgressEvents == nfiles + (IF mode = "node" THEN 6 ELSE 7)

\* C16: in a run that ends with the summary and in which nothing failed, one
\* progress event was sent per batch written, between the start of writing and
\* the 95 event.
C16_ProgressPerBatch ==
  (dataEvents # {} /\ faults = 0) =>
     Cardinality(progressEvents) = fixedProgressEvents + Len(writes)

indexCalls == {i \in 1..Len(calls) : calls[i].op = "index"}

\* C17: a node run never runs the index statement; a relationship run runs it
\* exactly once as soon as the session exists, before any write transaction;
\* when it fails the 30 event follows as after a success, and a run in which
\* nothing else fails writes every batch and ends with the summary.
C17_IndexOnceNonFatal ==
  /\ mode = "node" => indexCalls = {} /\ pc # "index"
  /\ mode = "rel" =>
       /\ indexCalls \subseteq {1}
       /\ pc = "index" => (session = "open" /\ writes = <<>> /\ calls = <<>>)
       /\ (session # "none" /\ pc # "index") => indexCalls = {1}
       /\ (indexCalls # {} /\ ctrl # "cancelled") =>
             \E i \in progressEvents : events[i] = Progress(30, 1)
       /\ (callsWith("index", "fail") # {} /\ faults = 1 /\ pc = "done") =>
             /\ errorEvents = {}
             /\ Len(events) > 0 /\ lastEvent.t = "data"
             /\ Len(writes) = Len(batches)

\* The index statement failed and the run wrote its batches and ended with the
\* summary.
C17_Witness ==
  /\ mode = "rel" /\ pc = "done"
  /\ callsWith("index", "fail") # {}
  /\ Len(writes) > 0 /\ dataEvents # {}

C15_PercentInteger ==
  \A i \in progressEvents :
     /\ events[i].num % events[i].den = 0
     /\ 0 <= events[i].num /\ events[i].num <= 100 * events[i].den

createdFor(i) == {j \in 1..Len(qCreated) : qCreated[j].row = i}

\* C11: a relationship query creates at most one relationship per row, so the
\* count it returns never exceeds the number of rows of the batch.
C11_AtMostOnePerRow ==
  (mode = "rel" /\ qPc = "done") =>
     /\ qCount <= Len(qBatch)
     /\ \A i \in 1..Len(qBatch) : Cardinality(createdFor(i)) <= 1

\* C19: a node batch handed to the store creates one node per row, labelled
\* with the row's LABEL and holding the row's other columns, values unchanged.
C19_NodeLabelAndProperties ==
  (mode = "node" /\ qPc \notin {"idle", "run"}) =>
     /\ qPc = "done"
     /\ Len(qCreated) = Len(qRows)
     /\ \A i \in 1..Len(qCreated) :
          /\ qCreated[i].row = i
          /\ qCreated[i].name = qRows[i]["LABEL"]
          /\ qCreated[i].props = without(qRows[i], {"LABEL"})

\* C20: every relationship created holds every column of its row but the five
\* required ones.
C20_AllOtherColumnsStored ==
  (mode = "rel" /\ qPc = "done") =>
     \A j \in 1..Len(qCreated) :
        qCreated[j].props =
          without(qRows[qCreated[j].row],
                  {REQUIRED_COLUMNS[c] : c \in 1..Len(REQUIRED_COLUMNS)})

\* C18: a check-connection call ends with 400 when the body fails validation,
\* no driver having been created; with 401 when the driver could not be created
\* or connectivity was not verified; with 200 exactly when the body passed
\* validation and connectivity was verified; and with nothing else.
C18_ThreeOutcomes ==
  ccPc = "done" =>
     /\ ccStatus \in {200, 400, 401}
     /\ ccStatus = 400 <=> (~ccBody.json \/ ~schemaValid(ccBody))
     /\ ccStatus = 400 => ccDriver = "none"
     /\ ccStatus = 200 <=> ccVerified = "ok"
     /\ ccStatus = 401 <=> (ccStatus # 400 /\ ccVerified # "ok")

\* Every input file was read, parsed and validated, and the parse loop is over.
allParsed ==
  /\ nfiles > 0 /\ fileIndex = nfiles
  /\ Len(files) = nfiles /\ Len(parsedFiles) = nfiles
  /\ pc \notin {"start", "parse", "connect"}

\* A write transaction is in flight.
inFlight == pc \in {"txrun", "commit"}

\* C21 as stated: a run that passed validation and parsing has created exactly
\* one driver and one session, after all files were parsed and validated, and
\* every write transaction is executed on that session.
C21_OneDriverOneSession ==
  /\ drivers <= 1 /\ sessions <= 1
  /\ (drivers > 0 \/ sessions > 0) => allParsed
  /\ inFlight => (sessions = 1 /\ session = "open" /\ driver = "open")
  /\ writes # <<>> => sessions = 1
  /\ allParsed => (drivers = 1 /\ sessions = 1)

\* C21 amended: a run creates at most one driver and one session, none before
\* all files were parsed and validated, and executes every write transaction
\* on that session; it has created exactly one of each once parsing is over,
\* unless neo4j.driver rejected the connection URL or the consumer cancelled
\* the stream.
C21_AtMostOneDriverOneSession ==
  /\ drivers <= 1 /\ sessions <= 1
  /\ (drivers > 0 \/ sessions > 0) => allParsed
  /\ inFlight => (sessions = 1 /\ session = "open" /\ driver = "open")
  /\ writes # <<>> => sessions = 1
  /\ (allParsed /\ urlOk /\ ctrl # "cancelled") => (drivers = 1 /\ sessions = 1)

\* Batches of two files were written and the run is over.
C21_Witness ==
  /\ pc = "done" /\ nfiles = 2
  /\ \E i, j \in 1..Len(writes) : writes[i].file = 1 /\ writes[j].file = 2
  /\ drivers = 1 /\ sessions = 1

\* A file that throws while being read or parsed, or that fails validation.
fileFails(file) == ~file.readable \/ lacksColumn(file)

\* The events of a run whose parse loop reached file k: the 5 event and the
\* parse events of files 1..k.
parseEvents(k) ==
  <<Progress(5, 1)>> \o [i \in 1..k |-> parseProgress(i - 1, nfiles)]

\* Files are parsed in input order, the i-th parsed file being the i-th input
\* file; a file that fails is the last one read, and what was parsed before it
\* is never written.
parsedInOrder ==
  /\ Len(parsedFiles) <= Len(files) /\ Len(files) <= nfiles
  /\ \A i \in 1..Len(parsedFiles) :
       /\ ~fileFails(files[i])
       /\ parsedFiles[i].headers = fields(files[i].headers)
       /\ parsedFiles[i].rows = parseData(files[i].runs, 1)
  /\ \A k \in 1..Len(files) :
       fileFails(files[k]) =>
          /\ k = Len(files) /\ Len(parsedFiles) = k - 1
          /\ pc = "done" /\ dataEvents = {}
          /\ drivers = 0 /\ sessions = 0 /\ writes = <<>> /\ calls = <<>> /\ stored = 0

\* C22 as stated: files are parsed and validated in input order; when file k
\* fails, no later file is read, the files parsed before are discarded, and the
\* terminal error is the next and last event of the stream.
C22_FirstFailureEndsRun ==
  /\ parsedInOrder
  /\ \A k \in 1..Len(files) :
       fileFails(files[k]) =>
          /\ Len(events) = k + 2
          /\ SubSeq(events, 1, k + 1) = parseEvents(k)
          /\ lastEvent.t = "error"

\* C22 amended: the same, the terminal error being enqueued unless the consumer
\* cancelled the stream while the file was read, and then nothing is enqueued
\* after the file's parse event.
C22_FirstFailureStopsParsing ==
  /\ parsedInOrder
  /\ \A k \in 1..Len(files) :
       fileFails(files[k]) =>
          /\ SubSeq(events, 1, k + 1) = parseEvents(k)
          /\ IF ctrl = "cancelled"
             THEN Len(events) = k + 1
             ELSE Len(events) = k + 2 /\ lastEvent.t = "error"

\* The second of two files failed after the first was parsed with rows.
C22_Witness ==
  /\ nfiles = 2 /\ Len(files) = 2 /\ pc = "done"
  /\ files[1].runs # <<>> /\ fileFails(files[2])
  /\ Len(events) = Len(files) + 2 /\ lastEvent.t = "error"

\* The line of file f on which key k appears first.
firstSeen(f, k) ==
  LET los == {parsedFiles[f].rows[q].lo :
                q \in {x \in 1..Len(parsedFiles[f].rows) : parsedFiles[f].rows[x].key = k}}
  IN CHOOSE lo \in los : \A other \in los : lo <= other

\* The batches committed before call i settled.
committedBefore(i) == {j \in callsWith("commit", "ok") : j < i}

\* C23: at most one write transaction is in flight: a transaction function is
\* executed on batch k only when batches 1..k-1 have been committed; and the
\* batches are started file by file in input order, within a file group by
\* group in the order the keys first appear, within a group slice by slice.
C23_OneTransactionInOrder ==
  /\ Len(writes) \in {batchNo, batchNo + 1}
  /\ inFlight => Len(writes) = batchNo + 1
  /\ pending > 0 => pc = "commit"
  /\ \A i \in 1..Len(calls) :
       calls[i].op \in {"run", "commit"} =>
          calls[i].batch = Cardinality(committedBefore(i)) + 1
  /\ \A j, h \in 1..Len(writes) :
       j < h =>
          /\ writes[j].file <= writes[h].file
          /\ writes[j].file = writes[h].file =>
               /\ firstSeen(writes[j].file, writes[j].key)
                    <= firstSeen(writes[h].file, writes[h].key)
               /\ writes[j].key = writes[h].key => writes[j].i < writes[h].i

\* Two batches of one group of the first file and a batch of the second file
\* were written, one of them after a retried transaction.
C23_Witness ==
  /\ pc = "done" /\ Len(writes) = 3
  /\ writes[1].file = 1 /\ writes[2].file = 1 /\ writes[3].file = 2
  /\ writes[1].key = writes[2].key
  /\ callsWith("run", "retry") \cup callsWith("commit", "retry") # {}

\* The lines of the rows of a batch, in the order the batch holds them, are
\* ascending.
ascending(rows) ==
  \A x \in 1..Len(rows) :
     /\ rows[x].lo <= rows[x].hi
     /\ x > 1 => rows[x - 1].hi < rows[x].lo

\* C24: within a file the groups are written in the order in which their keys
\* first appear among the file's rows, one group after the other; the rows of
\* a batch, and the batches of a group, follow the lines of the file; and a
\* run that ends with the summary wrote every row of every group.
C24_GroupAndRowOrder ==
  /\ \A j \in 1..Len(writes) : ascending(writes[j].rows)
  /\ \A j, h \in 1..Len(writes) :
       (j < h /\ writes[j].file = writes[h].file) =>
          /\ firstSeen(writes[j].file, writes[j].key)
               <= firstSeen(writes[h].file, writes[h].key)
          /\ writes[j].key = writes[h].key =>
               /\ writes[j].rows[Len(writes[j].rows)].hi < writes[h].rows[1].lo
               /\ \A g \in j..h : writes[g].key = writes[j].key
  /\ writes # <<>> =>
       writes[1].rows[1].lo = firstSeen(writes[1].file, writes[1].key)
  /\ dataEvents # {} =>
       \A f \in 1..Len(files) : \A k \in Keys \ {""} :
          rowsIn(writes, writesOf(f, k)) = keyRows(files[f].runs, k)

\* The file's rows have the keys A, B, A: the group of A, with rows from both
\* ends of the file in one batch, was written before the group of B.
C24_Witness ==
  /\ pc = "done" /\ dataEvents # {}
  /\ Len(files[1].runs) = MaxFileRuns
  /\ files[1].runs[1].key = "A" /\ files[1].runs[2].key = "B"
  /\ files[1].runs[MaxFileRuns].key = "A"
  /\ \E j \in 1..Len(writes) : writes[j].key = "A" /\ Len(writes[j].rows) > 1
  /\ writes[Len(writes)].key = "B"

\* C25: every batch is committed on its own: the store holds what the batches
\* whose executeWrite resolved created, as soon as each has resolved; when
\* batch k is rejected the store keeps what batches 1..k-1 created and nothing
\* of batch k, and the error event that ends the run carries no count.
C25_BatchesCommitSeparately ==
  /\ stored = createdBy(SubSeq(writes, 1, batchNo))
  /\ \A i \in 1..Len(calls) :
       storeFailure(calls[i]) =>
          /\ Len(writes) = calls[i].batch /\ batchNo = calls[i].batch - 1
          /\ stored = createdBy(SubSeq(writes, 1, calls[i].batch - 1))
          /\ pending = 0
          /\ dataEvents = {}
          /\ \A e \in errorEvents :
               events[e] = ErrorEvent("Failed to insert data into Neo4j")
               \/ events[e] = ErrorEvent("Internal server error")

\* The third batch was rejected after two batches had created entities.
C25_Witness ==
  /\ pc = "done" /\ errorEvents # {}
  /\ \E i \in 1..Len(calls) : storeFailure(calls[i]) /\ calls[i].batch > 2
  /\ created(writes[1].rows) > 0 /\ created(writes[2].rows) > 0
  /\ stored = created(writes[1].rows) + created(writes[2].rows)

\* The required columns that are not among the trimmed names of a header line.
absentColumns(line) ==
  {c \in {requiredColumns(mode)[i] : i \in 1..Len(requiredColumns(mode))} :
     \A i \in 1..Len(line) : line[i].text # c}

\* The items of a list that was joined with ", ".
items(list) == [i \in 1..((Len(list) + 1) \div 2) |-> list[2 * i - 1]]

wellJoined(list) == \A i \in 1..Len(list) : (i % 2 = 0) => list[i] = ", "

missingColumnErrors == {e \in errorEvents : events[e].msg = "missing required columns"}

\* The detail of the error event e that has the given label.
detailOf(e, label) ==
  {events[e].details[d].list :
     d \in {x \in 1..Len(events[e].details) : events[e].details[x].label = label}}

\* What the missing-column error says: all and only the absent columns, in the
\* order of REQUIRED_COLUMNS, and all the columns found (a relationship file);
\* the columns found (a node file).
errorDetailsRight ==
  \A e \in missingColumnErrors :
     /\ \A l \in detailOf(e, "Found columns") \cup detailOf(e, "Missing columns") :
          wellJoined(l)
     /\ \E l \in detailOf(e, "Found columns") :
          items(l) = [i \in 1..Len(files[1].headers) |-> files[1].headers[i].text]
     /\ mode = "rel" =>
          \E l \in detailOf(e, "Missing columns") :
             items(l) = SelectSeq(REQUIRED_COLUMNS,
                                  LAMBDA c : c \in absentColumns(files[1].headers))

\* C26 as stated: the missing-column error is raised exactly when a required
\* column (LABEL; TYPE, FROM_LABEL, FROM_ID, TO_LABEL, TO_ID) is absent from
\* the trimmed headers, and it lists the absent and the found columns.
C26_MissingColumnsExact ==
  (pc = "done" /\ Len(files) > 0 /\ files[1].readable) =>
     /\ missingColumnErrors # {} <=> absentColumns(files[1].headers) # {}
     /\ errorDetailsRight

\* C26 amended: the same for a file that has a header; a file without any
\* header field gets the no-headers error instead.
C26_MissingColumnsOfHeader ==
  (pc = "done" /\ Len(files) > 0 /\ files[1].readable) =>
     /\ missingColumnErrors # {} <=>
          (Len(files[1].headers) > 0 /\ absentColumns(files[1].headers) # {})
     /\ Len(files[1].headers) = 0 => events[Len(events)] = ErrorEvent("has no headers")
     /\ errorDetailsRight

\* A relationship file whose header has white space around the names, with
\* TO_ID first, lacks two of the required columns.
C26_Witness ==
  /\ mode = "rel" /\ pc = "done" /\ missingColumnErrors # {}
  /\ files[1].headers[1] = [text |-> "TO_ID", padded |-> TRUE]
  /\ Cardinality(absentColumns(files[1].headers)) = 2
  /\ Len(files[1].headers) > Len(REQUIRED_COLUMNS) - 2

\* C28: when check-connection returns its response, the driver it created, if
\* any, has been closed, after a verification that succeeded as after one that
\* failed; no driver is left open.
C28_CheckDriverClosed ==
  (ccPc = "done" \/ ccStatus # 0) =>
     /\ ccDriver # "open"
     /\ ccVerified # "none" => ccDriver = "closed"
     /\ ccDriver = "none" => ccVerified = "none"

\* Verification failed, and the 401 was returned after the driver was closed.
C28_Witness ==
  /\ ccPc = "done" /\ ccVerified = "fail"
  /\ ccDriver = "closed" /\ ccStatus = 401

\* The drivers (sessions) request r created.
madeBy(r, kind) == {i \in 1..Len(heap) : heap[i].by = r /\ heap[i].kind = kind}

\* C27: requests served concurrently each create one driver and one session
\* of their own; every transaction and every close is executed on an object
\* the request created itself; and a request's stream holds its own events
\* only.
C27_RequestsShareNothing ==
  /\ \A o \in heapOps : heap[o.on].by = o.by
  /\ \A r \in DOMAIN streams :
       \A i \in 1..Len(streams[r]) : streams[r][i].by = r
  /\ \A r \in DOMAIN reqPc :
       reqPc[r] # "connect" =>
          /\ madeBy(r, "driver") = {frames[r].driver}
          /\ madeBy(r, "session") = {frames[r].session}

\* Two requests have both written a batch and both have batches left.
C27_Witness ==
  /\ \A r \in 1..MaxRequests :
       /\ reqPc[r] = "write"
       /\ \E o \in heapOps : o.by = r /\ o.op = "write"
  /\ Len(heap) = 2 * MaxRequests

linesOf(kind) == {i \in 1..Len(linesRead) : linesRead[i].t = kind}

\* The response stream ended (reader.read() answered done).
streamEnded == handlerExit \in {"returned", "no response"}

\* C29: when the response stream ends and neither a success event nor an error
\* event was read, the handler leaves the status 'error', with the message
\* 'Upload completed but no response received'.
C29_NoResponseIsError ==
  (clientPc = "end" /\ streamEnded /\ linesOf("data") = {} /\ linesOf("error") = {}) =>
     /\ uploadStatus = "error"
     /\ uploadError = "Upload completed but no response received"

\* The ways the handler's try block is left by an exception other than the one
\* of the missing response.
failedExits == {"error event", "not ok", "fetch rejected", "read rejected"}

\* C30: the status is 'success' only if a success event was read; after an
\* error event, a response that is not ok, or a failed fetch or read, the
\* progress is 0 and the status becomes 'error'; and the error event is the
\* last line the handler handles: nothing read after it changes the status or
\* the progress.
C30_StatusFollowsStream ==
  /\ uploadStatus = "success" => linesOf("data") # {}
  /\ handlerExit \in failedExits =>
       /\ clientPc \in {"timer", "end", "ready"}
       /\ progress = 0
       /\ clientPc = "timer" => uploadStatus \in {"uploading", "success"}
       /\ clientPc = "end" => uploadStatus = "error"
       /\ clientPc = "ready" => uploadStatus = "idle"
  /\ linesOf("error") # {} =>
       /\ linesOf("error") = {Len(linesRead)}
       /\ handlerExit = "error event"
       /\ uploadError = linesRead[Len(linesRead)].msg

\* Progress was shown, then an error event was read and the status became
\* 'error' with the progress back at 0.
C30_Witness ==
  /\ clientPc = "end" /\ uploadStatus = "error" /\ progress = 0
  /\ Len(linesRead) > 1
  /\ linesRead[1].t = "progress" /\ linesRead[Len(linesRead)].t = "error"

\* The tab that is not tab.
otherTab(tab) == IF tab = "nodes" THEN "relationships" ELSE "nodes"

\* A step of handleCloseProgressModal: the only one that takes the handler
\* from its end back to ready.
closeStep == clientPc = "end" /\ clientPc' = "ready"

\* C31: closing the progress modal sets the status to idle and the progress to
\* 0; when the status was success the files and the preview of the uploaded
\* tab become empty, otherwise they are left as they were; the files of the
\* other tab are left as they were in both cases.
C31_CloseResetsAndClears ==
  [][closeStep =>
       /\ uploadStatus' = "idle"
       /\ progress' = 0
       /\ IF uploadStatus = "success"
          THEN IF uploadType = "nodes"
               THEN nodeFiles' = <<>> /\ nodePreview' = <<>>
               ELSE relationshipFiles' = <<>> /\ relationshipPreview' = <<>>
          ELSE UNCHANGED <<nodeFiles, relationshipFiles, nodePreview, relationshipPreview>>
       /\ IF uploadType = "nodes"
          THEN UNCHANGED relationshipFiles
          ELSE UNCHANGED nodeFiles]_vars

\* A successful upload of the nodes tab was dismissed: the files that were sent
\* are no longer held by the page.
C31_Witness ==
  /\ clientPc = "ready" /\ uploads = 1 /\ handlerExit = "returned"
  /\ uploadStatus = "idle" /\ progress = 0
  /\ uploadType = "nodes" /\ formData # <<>> /\ nodeFiles = <<>> /\ nodePreview = <<>>

members(seq) == {seq[i] : i \in 1..Len(seq)}

\* C37 as stated: once no preview callback and no effect is pending, the
\* preview of each tab has one entry for each file the tab holds and no other,
\* so it is empty when the tab holds no file.
C37_PreviewDescribesFiles ==
  (parses = <<>> /\ fuEffects = {}) =>
     \A tab \in Tabs :
       /\ members(previewOf(tab)) = members(filesOf(tab))
       /\ Len(previewOf(tab)) = Len(filesOf(tab))

\* C38 as stated: whenever no effect is pending, the page holds for the
\* selected tab the file list that the FileUpload of that tab holds.
C38_PageHoldsComponentFiles ==
  fuEffects = {} => filesOf(selectedTab) = fuFiles[selectedTab]

\* C35: the store says connected only with the form data of an onSubmit call
\* that was answered ok with isConnected true, and is otherwise as created;
\* the store changes only in the step that delivers such an answer, to the
\* form data of that call; the modal is open exactly while the store is not
\* connected, and the protected page is rendered exactly while it is.
C35_ConnectedOnlyAfterOk ==
  /\ [](/\ IF connStore.isConnected
           THEN \E i \in 1..Len(answered) :
                  /\ answered[i].answer.kind = "body"
                  /\ answered[i].answer.ok /\ answered[i].answer.isConnected
                  /\ connStore = [connectionUrl |-> answered[i].data.connectionUrl,
                                  username |-> answered[i].data.username,
                                  password |-> answered[i].data.password,
                                  isConnected |-> TRUE]
           ELSE connStore = NoConnection
        /\ modalOpen <=> ~connStore.isConnected
        /\ protectedShown <=> connStore.isConnected)
  /\ [][Len(answered') > Len(answered) =>
          LET last == answered'[Len(answered')]
          IN IF last.answer.kind = "body" /\ last.answer.ok /\ last.answer.isConnected
             THEN /\ connStore'.isConnected
                  /\ connStore'.connectionUrl = last.data.connectionUrl
                  /\ connStore'.username = last.data.username
                  /\ connStore'.password = last.data.password
             ELSE UNCHANGED connStore]_vars

\* A first attempt failed and left the store as created, with its message
\* shown; a second one, with other form data, connected.
C35_Witness ==
  /\ Len(answered) = 2
  /\ ~answered[1].answer.ok /\ answered[2].answer.ok /\ answered[2].answer.isConnected
  /\ answered[1].data # answered[2].data
  /\ connStore.isConnected /\ connStore.password = answered[2].data.password
  /\ connError # ""

\* C32 as stated: totalRows of the summary is the number of entities the run
\* committed to the store, also after a transaction function was executed more
\* than once.
C32_SummaryCountsCommitted ==
  \A i \in dataEvents : events[i].rows = stored

\* The per-batch progress events of a relationship run: the progress events
\* after the 5 event, the events of the files and the 15, 20, 25 and 30 events,
\* without the 95 and 100 events that precede the summary.
batchEvents ==
  {i \in progressEvents :
     /\ mode = "rel"
     /\ i > nfiles + 5
     /\ dataEvents # {} => i < Len(events) - 2}

\* C33 as stated: a per-batch progress event is enqueued only after the batch
\* it accounts for was committed, so there are never more such events than
\* committed batches; and a batch whose query ran is committed unless a call of
\* the store was rejected.
C33_ProgressAfterCommit ==
  mode = "rel" =>
     /\ Cardinality(batchEvents) <= Cardinality(callsWith("commit", "ok"))
     /\ (pc = "done" /\ \A i \in 1..Len(calls) : calls[i].res = "ok") =>
          Cardinality(callsWith("run", "ok")) = Cardinality(callsWith("commit", "ok"))

\* C34 as stated: in a relationship run processedRows never exceeds totalRows,
\* every per-batch percent lies between 30 and 95, and a run with no rows sends
\* no per-batch event.
C34_BatchPercentInRange ==
  mode = "rel" =>
     /\ processedRows <= totalRows
     /\ \A i \in batchEvents :
          percentLeq(Progress(30, 1), events[i]) /\ percentLeq(events[i], Progress(95, 1))
     /\ totalRows = 0 => batchEvents = {}

====
